---- MODULE Spec2Model ----
(***************************************************************************)
(* Green-AI Footprint Tool: the calculation engine                         *)
(* (src/src/backend/services/calculator.py) together with the catalog      *)
(* tables it reads (src/src/backend/models.py, seed.py) and the API        *)
(* handlers around it (src/src/backend/api.py).                            *)
(*                                                                         *)
(* Numbers.  The engine computes with Python floats.  The model computes   *)
(* with exact rationals [n, d] in lowest terms (d > 0); binary rounding of *)
(* the last place is not represented.  math.log is a fixed-point binary    *)
(* logarithm (see log).                                                    *)
(*                                                                         *)
(* Optional values.  Python's Optional[T] is a sequence: <<>> is None and  *)
(* <<x>> is the value x.                                                   *)
(***************************************************************************)
EXTENDS Integers, Sequences, FiniteSets, TLC

VARIABLES
    ai_models,                 \* table ai_models: id -> row
    gpu_profiles,              \* table gpu_profiles: id -> row
    grid_carbon_intensities,   \* table grid_carbon_intensities: region_id -> row
    organizations,             \* slugs of the rows of table organizations
    calculation_logs,          \* table calculation_logs, in insertion order
    last                       \* the last completed operation: its name, arguments and outcome

vars == <<ai_models, gpu_profiles, grid_carbon_intensities, organizations,
          calculation_logs, last>>

-----------------------------------------------------------------------------
(* Exact rational arithmetic standing for Python float arithmetic.         *)

RECURSIVE GCD(_, _)
GCD(a, b) == IF b = 0 THEN a ELSE GCD(b, a % b)

Abs(a) == IF a < 0 THEN -a ELSE a

\* the rational n/d in lowest terms with a positive denominator (d # 0)
Rat(n, d) ==
    LET g == GCD(Abs(n), Abs(d))
        s == IF d < 0 THEN -1 ELSE 1
    IN  [n |-> s * (n \div g), d |-> s * (d \div g)]

Int2Rat(i) == [n |-> i, d |-> 1]

Zero == Int2Rat(0)

LCM(a, b) == (a \div GCD(a, b)) * b

RAdd(x, y) ==
    LET l == LCM(x.d, y.d)
    IN  Rat(x.n * (l \div x.d) + y.n * (l \div y.d), l)

RNeg(x) == [n |-> -x.n, d |-> x.d]

RSub(x, y) == RAdd(x, RNeg(y))

RMul(x, y) ==
    LET g1 == GCD(Abs(x.n), y.d)
        g2 == GCD(Abs(y.n), x.d)
    IN  Rat((x.n \div g1) * (y.n \div g2), (x.d \div g2) * (y.d \div g1))

\* x / y for y # 0
RDiv(x, y) == RMul(x, Rat(y.d, y.n))

RLe(x, y) ==
    LET l == LCM(x.d, y.d)
    IN  x.n * (l \div x.d) <= y.n * (l \div y.d)

RLt(x, y) == ~RLe(y, x)

RGe(x, y) == RLe(y, x)

RGt(x, y) == ~RLe(x, y)

RMax(x, y) == IF RGe(x, y) THEN x ELSE y

RMin(x, y) == IF RLe(x, y) THEN x ELSE y

-----------------------------------------------------------------------------
(* Python values.                                                          *)

None == <<>>

Some(x) == <<x>>

\* a or b for an Optional[float] a: None and 0.0 are both falsy
FloatOr(a, b) == IF a # None /\ a[1] # Zero THEN a[1] ELSE b

\* a or b for an Optional[str] a: None and "" are both falsy
StrOr(a, b) == IF a # None /\ a[1] # "" THEN a[1] ELSE b

\* outcomes of a call: a returned value or a raised exception
Return(v) == [raised |-> FALSE, value |-> v]

Raise(type, msg) == [raised |-> TRUE, type |-> type, msg |-> msg]

-----------------------------------------------------------------------------
(* Module-level constants of calculator.py.                                *)

DEFAULT_PUE == Rat(12, 10)

DEFAULT_WUE_LITERS_PER_KWH == Rat(11, 10)

EQUIVALENCIES ==
    [kmDrivingPerKgCO2e |-> Rat(595, 100),
     smartphoneChargesPerKwh |-> Int2Rat(86),
     treeDaysAbsorptionPerKgCO2e |-> Rat(167, 10)]

DEFAULT_ECOSCORE_WEIGHTS ==
    [energyEfficiency |-> Rat(30, 100),
     carbonIntensity |-> Rat(30, 100),
     waterUsage |-> Rat(10, 100),
     hardwareLifecycle |-> Rat(10, 100),
     renewableAlignment |-> Rat(20, 100)]

ECOSCORE_BENCHMARKS ==
    [energyPerMillionTokens |-> [best |-> Rat(3, 100), worst |-> Int2Rat(5)],
     co2ePerMillionTokens |-> [best |-> Rat(23, 10), worst |-> Int2Rat(2100)],
     waterPerMillionTokens |-> [best |-> Rat(3, 100), worst |-> Rat(55, 10)],
     hardwareAmortizedPerMillionTokens |-> [best |-> Rat(5, 10), worst |-> Int2Rat(120)],
     renewablePercentage |-> [best |-> Int2Rat(100), worst |-> Int2Rat(0)]]

-----------------------------------------------------------------------------
(* The seeded catalog (seed.py).                                           *)

\* GPU_PROFILES: the rows the seeded models refer to
SeedGpuProfiles ==
    [g \in {"nvidia-a100-40gb", "nvidia-t4"} |->
        IF g = "nvidia-a100-40gb"
        THEN [id |-> g, name |-> "NVIDIA A100 40GB",
              embodied_carbon_kg_co2e |-> Int2Rat(120),
              expected_lifespan_hours |-> 35000,
              water_cooling_liters_per_hour |-> Rat(17, 10)]
        ELSE [id |-> g, name |-> "NVIDIA T4",
              embodied_carbon_kg_co2e |-> Int2Rat(50),
              expected_lifespan_hours |-> 35000,
              water_cooling_liters_per_hour |-> Rat(4, 10)]]

\* GRID_CARBON_INTENSITIES: four of the seeded regions; id is the uuid the
\* column default gives each row
SeedGridCarbonIntensities ==
    [r \in {"us-west-2", "eu-north-1", "ap-southeast-1", "af-south-1"} |->
        CASE r = "us-west-2" ->
                [id |-> "uuid-g-" \o r, region_id |-> r, location |-> "Oregon, USA",
                 gco2e_per_kwh |-> Int2Rat(78), source |-> "EIA eGRID 2023 (NWPP)",
                 renewable_percentage |-> 68]
          [] r = "eu-north-1" ->
                [id |-> "uuid-g-" \o r, region_id |-> r, location |-> "Stockholm, Sweden",
                 gco2e_per_kwh |-> Int2Rat(9), source |-> "Swedish Energy Agency 2023",
                 renewable_percentage |-> 98]
          [] r = "ap-southeast-1" ->
                [id |-> "uuid-g-" \o r, region_id |-> r, location |-> "Singapore",
                 gco2e_per_kwh |-> Int2Rat(408), source |-> "EMA Singapore 2023",
                 renewable_percentage |-> 3]
          [] OTHER ->
                [id |-> "uuid-g-" \o r, region_id |-> r, location |-> "Cape Town, South Africa",
                 gco2e_per_kwh |-> Int2Rat(928), source |-> "Eskom Integrated Report 2023",
                 renewable_percentage |-> 7]]

\* MODEL_PROFILES: two of the seeded models; seed_database gives each a fresh
\* uuid as id and sets is_predefined and is_active
SeedAIModels ==
    [i \in {"uuid-1", "uuid-2"} |->
        IF i = "uuid-1"
        THEN [id |-> i, slug |-> "gpt35", display_name |-> "GPT-3.5 Class",
              family |-> "gpt-3.5-class",
              energy_per_million_tokens_kwh |-> Rat(45, 100),
              default_gpu |-> "nvidia-a100-40gb", gpu_count_inference |-> 2,
              tokens_per_second_per_gpu |-> 120, quality_score |-> 78,
              is_predefined |-> TRUE, is_active |-> TRUE]
        ELSE [id |-> i, slug |-> "llama7b", display_name |-> "Llama 2 7B",
              family |-> "llama-7b",
              energy_per_million_tokens_kwh |-> Rat(5, 100),
              default_gpu |-> "nvidia-t4", gpu_count_inference |-> 1,
              tokens_per_second_per_gpu |-> 200, quality_score |-> 55,
              is_predefined |-> TRUE, is_active |-> TRUE]]

-----------------------------------------------------------------------------
(* CalculatorService: catalog lookups.  db is the record of the tables.    *)

Db == [ai_models |-> ai_models, gpu_profiles |-> gpu_profiles,
       grid_carbon_intensities |-> grid_carbon_intensities]

\* the rows the query of get_model_profile selects
ActiveModelMatches(db, model_id) ==
    {i \in DOMAIN db.ai_models :
        /\ (db.ai_models[i].id = model_id \/ db.ai_models[i].slug = model_id)
        /\ db.ai_models[i].is_active = TRUE}

\* get_model_profile without the is_active condition of its filter
get_model_profile_any_status(db, model_id) ==
    LET matches == {i \in DOMAIN db.ai_models :
                        db.ai_models[i].id = model_id \/ db.ai_models[i].slug = model_id}
    IN  IF matches = {}
        THEN Raise("ValueError", <<"Model not found: ", model_id>>)
        ELSE Return(db.ai_models[CHOOSE i \in matches : TRUE])

get_model_profile(db, model_id) ==
    IF ActiveModelMatches(db, model_id) = {}
    THEN Raise("ValueError", <<"Model not found: ", model_id>>)
    ELSE Return(db.ai_models[CHOOSE i \in ActiveModelMatches(db, model_id) : TRUE])

get_gpu_profile(db, gpu_id) ==
    IF gpu_id \notin DOMAIN db.gpu_profiles
    THEN Raise("ValueError", <<"GPU not found: ", gpu_id>>)
    ELSE Return(db.gpu_profiles[gpu_id])

get_grid_intensity(db, region_id) ==
    IF region_id \notin DOMAIN db.grid_carbon_intensities
    THEN Raise("ValueError", <<"Region not found: ", region_id>>)
    ELSE Return(db.grid_carbon_intensities[region_id])

-----------------------------------------------------------------------------
(* Python's round and math.log.                                            *)

\* the integer part of x, rounding toward minus infinity
Floor(x) == x.n \div x.d

\* round(x): the nearest integer, a tie going to the even one
RoundInt(x) ==
    LET q == Floor(x)
        rem == x.n % x.d
    IN  IF 2 * rem < x.d THEN q
        ELSE IF 2 * rem > x.d THEN q + 1
        ELSE IF q % 2 = 0 THEN q ELSE q + 1

RECURSIVE Pow10(_)
Pow10(k) == IF k = 0 THEN 1 ELSE 10 * Pow10(k - 1)

\* round(x, ndigits)
round(x, ndigits) ==
    Rat(RoundInt(RMul(x, Int2Rat(Pow10(ndigits)))), Pow10(ndigits))

RECURSIVE Pow2(_)
Pow2(k) == IF k = 0 THEN 1 ELSE 2 * Pow2(k - 1)

\* fractional bits of the logarithm, and bits of the mantissa it is computed from
LogFractionBits == 8

LogMantissaBits == 14

\* the largest k >= 0 with d * 2^k <= n, for n >= d
RECURSIVE ExponentUp(_, _, _)
ExponentUp(n, d, k) == IF d * Pow2(k + 1) <= n THEN ExponentUp(n, d, k + 1) ELSE k

\* the smallest j >= 1 with n * 2^j >= d, for n < d
RECURSIVE ExponentDown(_, _, _)
ExponentDown(n, d, j) == IF n * Pow2(j) < d THEN ExponentDown(n, d, j + 1) ELSE j

\* the first `left` bits of the binary fraction of log2(m / 2^LogMantissaBits),
\* appended to acc, by repeated squaring
RECURSIVE FractionBits(_, _, _)
FractionBits(m, left, acc) ==
    IF left = 0 THEN acc
    ELSE LET m2 == (m * m) \div Pow2(LogMantissaBits)
         IN  IF m2 >= Pow2(LogMantissaBits + 1)
             THEN FractionBits(m2 \div 2, left - 1, 2 * acc + 1)
             ELSE FractionBits(m2, left - 1, 2 * acc)

\* math.log(x) for x > 0, as the integer floor(2^LogFractionBits * log2(x)) up
\* to the truncation of the mantissa.  log_normalize uses only the ratio of
\* two differences of logarithms, which is the same in every base.
log(x) ==
    LET k == IF x.n >= x.d THEN ExponentUp(x.n, x.d, 0) ELSE -ExponentDown(x.n, x.d, 1)
        m == IF k <= LogMantissaBits
             THEN (x.n * Pow2(LogMantissaBits - k)) \div x.d
             ELSE x.n \div (x.d * Pow2(k - LogMantissaBits))
    IN  k * Pow2(LogFractionBits) + FractionBits(m, LogFractionBits, 0)

\* the quotient of two differences of logarithms is kept to 1/LogQuotientScale
LogQuotientScale == 10000

-----------------------------------------------------------------------------
(* CalculatorService: the footprint calculator.                            *)

\* calculate_energy with its division by 1_000_000 written as a floor division
calculate_energy_floor_div(total_tokens, model, pue) ==
    LET million_tokens == Int2Rat(total_tokens \div 1000000)
    IN  RMul(RMul(million_tokens, model.energy_per_million_tokens_kwh), pue)

\* calculate_energy without the PUE factor
calculate_energy_no_pue(total_tokens, model, pue) ==
    LET million_tokens == Rat(total_tokens, 1000000)
    IN  RMul(million_tokens, model.energy_per_million_tokens_kwh)

calculate_energy(total_tokens, model, pue) ==
    LET million_tokens == Rat(total_tokens, 1000000)
    IN  RMul(RMul(million_tokens, model.energy_per_million_tokens_kwh), pue)

\* raises when the region has no grid row
calculate_co2e(db, energy_kwh, region_id) ==
    LET grid == get_grid_intensity(db, region_id)
    IN  IF grid.raised THEN grid
        ELSE Return(RMul(energy_kwh, grid.value.gco2e_per_kwh))

\* calculate_water charging the server cooling for at least one hour
calculate_water_min_hour(energy_kwh, gpu, duration_hours, wue) ==
    LET facility_water == RMul(energy_kwh, wue)
        server_water == RMul(gpu.water_cooling_liters_per_hour,
                             RMax(duration_hours, Int2Rat(1)))
    IN  RAdd(facility_water, server_water)

calculate_water(energy_kwh, gpu, duration_hours, wue) ==
    LET facility_water == RMul(energy_kwh, wue)
        server_water == RMul(gpu.water_cooling_liters_per_hour, duration_hours)
    IN  RAdd(facility_water, server_water)

calculate_hardware_amortization(gpu, gpu_count, usage_duration_hours) ==
    LET amortized_per_gpu_per_hour ==
            RDiv(RMul(gpu.embodied_carbon_kg_co2e, Int2Rat(1000)),
                 Int2Rat(gpu.expected_lifespan_hours))
    IN  RMul(RMul(amortized_per_gpu_per_hour, Int2Rat(gpu_count)), usage_duration_hours)

PyMax(a, b) == IF a >= b THEN a ELSE b

\* FootprintAssumptions naming the default PUE and WUE whatever the call used
FootprintAssumptions_defaults(pue, wue, duration_hours, model, gpu, grid) ==
    << <<"PUE factor", DEFAULT_PUE>>,
       <<"Estimated duration", round(duration_hours, 3),
         model.tokens_per_second_per_gpu, model.gpu_count_inference>>,
       <<"Grid intensity", grid.gco2e_per_kwh, grid.source>>,
       <<"WUE", DEFAULT_WUE_LITERS_PER_KWH>>,
       <<"GPU embodied carbon", gpu.embodied_carbon_kg_co2e,
         gpu.expected_lifespan_hours>> >>

\* the assumptions list of calculate_full_footprint: each f-string as its
\* fixed text followed by the values it formats; the duration is formatted with
\* three decimals
FootprintAssumptions(pue, wue, duration_hours, model, gpu, grid) ==
    << <<"PUE factor", pue>>,
       <<"Estimated duration", round(duration_hours, 3),
         model.tokens_per_second_per_gpu, model.gpu_count_inference>>,
       <<"Grid intensity", grid.gco2e_per_kwh, grid.source>>,
       <<"WUE", wue>>,
       <<"GPU embodied carbon", gpu.embodied_carbon_kg_co2e,
         gpu.expected_lifespan_hours>> >>

\* the body of calculate_full_footprint after its three lookups succeeded
FootprintOf(db, input_data, model, gpu, grid) ==
    LET pue == FloatOr(input_data.pue, DEFAULT_PUE)
        energy_kwh == calculate_energy(input_data.total_tokens, model, pue)
        total_seconds ==
            Rat(input_data.total_tokens,
                model.tokens_per_second_per_gpu * model.gpu_count_inference)
        duration_hours == RDiv(total_seconds, Int2Rat(3600))
        co2e == calculate_co2e(db, energy_kwh, input_data.region_id)
        wue == FloatOr(input_data.wue, DEFAULT_WUE_LITERS_PER_KWH)
        water_liters == calculate_water(energy_kwh, gpu, duration_hours, wue)
        hardware_amortized_grams ==
            calculate_hardware_amortization(gpu, model.gpu_count_inference, duration_hours)
        request_count == Int2Rat(PyMax(input_data.request_count, 1))
    IN  IF co2e.raised THEN co2e
        ELSE LET co2e_grams == co2e.value
                 total_co2e_kg == RDiv(co2e_grams, Int2Rat(1000))
             IN  Return(
                   [energy_kwh |-> energy_kwh,
                    co2e_grams |-> co2e_grams,
                    water_liters |-> water_liters,
                    hardware_amortized_grams |-> hardware_amortized_grams,
                    duration_hours |-> duration_hours,
                    energy_per_request |-> RDiv(energy_kwh, request_count),
                    co2e_per_request |-> RDiv(co2e_grams, request_count),
                    water_per_request |-> RDiv(water_liters, request_count),
                    equivalent_km_driving |->
                        RMul(total_co2e_kg, EQUIVALENCIES.kmDrivingPerKgCO2e),
                    equivalent_smartphone_charges |->
                        RMul(energy_kwh, EQUIVALENCIES.smartphoneChargesPerKwh),
                    model |-> model,
                    gpu |-> gpu,
                    grid |-> grid,
                    assumptions |->
                        FootprintAssumptions(pue, wue, duration_hours, model, gpu, grid)])

calculate_full_footprint(db, input_data) ==
    LET model == get_model_profile(db, input_data.model_id)
    IN  IF model.raised THEN model
        ELSE LET gpu_id == StrOr(input_data.gpu_override, model.value.default_gpu)
                 gpu == get_gpu_profile(db, gpu_id)
             IN  IF gpu.raised THEN gpu
                 ELSE LET grid == get_grid_intensity(db, input_data.region_id)
                      IN  IF grid.raised THEN grid
                          ELSE FootprintOf(db, input_data, model.value, gpu.value, grid.value)

-----------------------------------------------------------------------------
(* CalculatorService: the EcoScore engine.                                 *)

\* log_normalize without its early returns and its clamp
log_normalize_unclamped(value, best, worst) ==
    LET quotient == Rat(((log(value) - log(best)) * LogQuotientScale)
                            \div (log(worst) - log(best)),
                        LogQuotientScale)
    IN  RMul(Int2Rat(100), RSub(Int2Rat(1), quotient))

\* log_normalize with log_best and log_worst exchanged in the quotient
log_normalize_swapped(value, best, worst) ==
    IF RLe(value, best) THEN Int2Rat(100)
    ELSE IF RGe(value, worst) THEN Int2Rat(0)
    ELSE LET quotient == Rat(((log(value) - log(worst)) * LogQuotientScale)
                                 \div (log(best) - log(worst)),
                             LogQuotientScale)
             score == RMul(Int2Rat(100), RSub(Int2Rat(1), quotient))
         IN  RMax(Int2Rat(0), RMin(Int2Rat(100), score))

log_normalize(value, best, worst) ==
    IF RLe(value, best) THEN Int2Rat(100)
    ELSE IF RGe(value, worst) THEN Int2Rat(0)
    ELSE LET log_value == log(value)
             log_best == log(best)
             log_worst == log(worst)
             quotient == Rat(((log_value - log_best) * LogQuotientScale)
                                 \div (log_worst - log_best),
                             LogQuotientScale)
             score == RMul(Int2Rat(100), RSub(Int2Rat(1), quotient))
         IN  RMax(Int2Rat(0), RMin(Int2Rat(100), score))

\* linear_normalize without its lower clamp
linear_normalize_unclamped(value, worst, best) ==
    IF RGe(value, best) THEN Int2Rat(100)
    ELSE RDiv(RMul(Int2Rat(100), RSub(value, worst)), RSub(best, worst))

linear_normalize(value, worst, best) ==
    IF RGe(value, best) THEN Int2Rat(100)
    ELSE IF RLe(value, worst) THEN Int2Rat(0)
    ELSE RDiv(RMul(Int2Rat(100), RSub(value, worst)), RSub(best, worst))

\* get_grade with exclusive lower bounds
get_grade_exclusive(score) ==
    IF RGt(score, Int2Rat(90)) THEN "A+"
    ELSE IF RGt(score, Int2Rat(80)) THEN "A"
    ELSE IF RGt(score, Int2Rat(70)) THEN "B+"
    ELSE IF RGt(score, Int2Rat(60)) THEN "B"
    ELSE IF RGt(score, Int2Rat(50)) THEN "C+"
    ELSE IF RGt(score, Int2Rat(40)) THEN "C"
    ELSE IF RGt(score, Int2Rat(30)) THEN "D"
    ELSE "F"

get_grade(score) ==
    IF RGe(score, Int2Rat(90)) THEN "A+"
    ELSE IF RGe(score, Int2Rat(80)) THEN "A"
    ELSE IF RGe(score, Int2Rat(70)) THEN "B+"
    ELSE IF RGe(score, Int2Rat(60)) THEN "B"
    ELSE IF RGe(score, Int2Rat(50)) THEN "C+"
    ELSE IF RGe(score, Int2Rat(40)) THEN "C"
    ELSE IF RGe(score, Int2Rat(30)) THEN "D"
    ELSE "F"

\* overall with the sign of the hardware term inverted
overall_minus_hardware(weights, energy_score, co2_score, water_score, hw_score, renewable_score) ==
    RAdd(RSub(RAdd(RAdd(RMul(weights.energyEfficiency, energy_score),
                        RMul(weights.carbonIntensity, co2_score)),
                   RMul(weights.waterUsage, water_score)),
              RMul(weights.hardwareLifecycle, hw_score)),
         RMul(weights.renewableAlignment, renewable_score))

\* the weighted overall score, before it is rounded
overall(weights, energy_score, co2_score, water_score, hw_score, renewable_score) ==
    RAdd(RAdd(RAdd(RAdd(RMul(weights.energyEfficiency, energy_score),
                        RMul(weights.carbonIntensity, co2_score)),
                   RMul(weights.waterUsage, water_score)),
              RMul(weights.hardwareLifecycle, hw_score)),
         RMul(weights.renewableAlignment, renewable_score))

\* confidence with the reserved "high" tier given to the other families
confidence_high_tier(model) == IF model.family = "custom" THEN "low" ELSE "high"

\* the confidence assessment
confidence(model) == IF model.family = "custom" THEN "low" ELSE "medium"

\* energy_raw without the PUE factor
energy_raw_no_pue(model) == model.energy_per_million_tokens_kwh

\* the raw values calculate_eco_score normalizes, each for one million tokens
energy_raw(model) == RMul(model.energy_per_million_tokens_kwh, DEFAULT_PUE)

co2_raw(model, grid) == RMul(energy_raw(model), grid.gco2e_per_kwh)

inference_hours(model) ==
    RDiv(Rat(1000000, model.tokens_per_second_per_gpu * model.gpu_count_inference),
         Int2Rat(3600))

water_raw(model, gpu) ==
    RAdd(RMul(energy_raw(model), DEFAULT_WUE_LITERS_PER_KWH),
         RMul(gpu.water_cooling_liters_per_hour, inference_hours(model)))

hw_raw(model, gpu) ==
    RMul(RMul(RDiv(RMul(gpu.embodied_carbon_kg_co2e, Int2Rat(1000)),
                   Int2Rat(gpu.expected_lifespan_hours)),
              Int2Rat(model.gpu_count_inference)),
         inference_hours(model))

\* the body of calculate_eco_score after its three lookups succeeded
EcoScoreOf(weights, model, gpu, grid) ==
    LET benchmarks == ECOSCORE_BENCHMARKS
        energy_score == log_normalize(energy_raw(model),
                                      benchmarks.energyPerMillionTokens.best,
                                      benchmarks.energyPerMillionTokens.worst)
        co2_score == log_normalize(co2_raw(model, grid),
                                   benchmarks.co2ePerMillionTokens.best,
                                   benchmarks.co2ePerMillionTokens.worst)
        water_score == log_normalize(water_raw(model, gpu),
                                     benchmarks.waterPerMillionTokens.best,
                                     benchmarks.waterPerMillionTokens.worst)
        hw_score == log_normalize(hw_raw(model, gpu),
                                  benchmarks.hardwareAmortizedPerMillionTokens.best,
                                  benchmarks.hardwareAmortizedPerMillionTokens.worst)
        renewable_score == linear_normalize(Int2Rat(grid.renewable_percentage),
                                            benchmarks.renewablePercentage.worst,
                                            benchmarks.renewablePercentage.best)
        overall_score == overall(weights, energy_score, co2_score, water_score, hw_score,
                                 renewable_score)
        grade == get_grade(overall_score)
    IN  [overall |-> round(overall_score, 1),
         grade |-> grade,
         breakdown |->
            [energyEfficiency |-> [score |-> round(energy_score, 1),
                                   raw |-> round(energy_raw(model), 3),
                                   unit |-> "kWh per M tokens"],
             carbonIntensity |-> [score |-> round(co2_score, 1),
                                  raw |-> round(co2_raw(model, grid), 2),
                                  unit |-> "gCO2e per M tokens"],
             waterUsage |-> [score |-> round(water_score, 1),
                             raw |-> round(water_raw(model, gpu), 3),
                             unit |-> "liters per M tokens"],
             hardwareLifecycle |-> [score |-> round(hw_score, 1),
                                    raw |-> round(hw_raw(model, gpu), 2),
                                    unit |-> "gCO2e amortized per M tokens"],
             renewableAlignment |-> [score |-> round(renewable_score, 1),
                                     raw |-> Int2Rat(grid.renewable_percentage),
                                     unit |-> "% renewable grid"]],
         assumptions |->
            << <<"Energy efficiency scored against best and worst benchmarks">>,
               <<"Carbon intensity uses grid", grid.location, grid.gco2e_per_kwh>>,
               <<"Region renewable energy", grid.renewable_percentage>>,
               <<"Confidence reflects data source quality">> >>,
         confidence |-> confidence(model)]

\* weights and gpu_override are Optional
calculate_eco_score(db, model_id, region_id, weights, gpu_override) ==
    LET w == IF weights = None THEN DEFAULT_ECOSCORE_WEIGHTS ELSE weights[1]
        model == get_model_profile(db, model_id)
    IN  IF model.raised THEN model
        ELSE LET gpu_id == StrOr(gpu_override, model.value.default_gpu)
                 gpu == get_gpu_profile(db, gpu_id)
             IN  IF gpu.raised THEN gpu
                 ELSE LET grid == get_grid_intensity(db, region_id)
                      IN  IF grid.raised THEN grid
                          ELSE Return(EcoScoreOf(w, model.value, gpu.value, grid.value))

-----------------------------------------------------------------------------
(* CalculatorService: the comparison engine.                               *)

\* the FootprintInput dataclass with its defaults
FootprintInput(model_id, region_id, total_tokens, request_count) ==
    [model_id |-> model_id, region_id |-> region_id, total_tokens |-> total_tokens,
     request_count |-> request_count, avg_tokens_per_request |-> None,
     gpu_override |-> None, pue |-> None, wue |-> None]

\* cost_efficiency per gram of CO2e
cost_efficiency_per_gram(model, footprint) ==
    IF RGt(footprint.co2e_grams, Zero)
    THEN RDiv(Int2Rat(model.quality_score), footprint.co2e_grams)
    ELSE Zero

\* cost efficiency: quality points per kilogram of CO2e
cost_efficiency(model, footprint) ==
    IF RGt(footprint.co2e_grams, Zero)
    THEN RDiv(Int2Rat(model.quality_score), RDiv(footprint.co2e_grams, Int2Rat(1000)))
    ELSE Zero

\* EntryOf reporting the energy of the footprint as the raw energy value of the
\* EcoScore
EntryOf_footprint_raw(model_id, model, eco_score, footprint) ==
    IF eco_score.raised THEN eco_score
    ELSE IF footprint.raised THEN footprint
    ELSE Return(
               [modelId |-> model_id,
                displayName |-> model.display_name,
                ecoScore |-> [eco_score.value EXCEPT
                                !.breakdown.energyEfficiency.raw =
                                    round(footprint.value.energy_kwh, 3)],
                footprint |->
                   [energyKwhPer1kRequests |-> footprint.value.energy_kwh,
                    co2eGramsPer1kRequests |-> footprint.value.co2e_grams,
                    waterLitersPer1kRequests |-> footprint.value.water_liters,
                    hardwareAmortizedGramsPer1kRequests |->
                        footprint.value.hardware_amortized_grams,
                    totalEquivalentKmDriving |-> footprint.value.equivalent_km_driving,
                    totalEquivalentSmartphoneCharges |->
                        footprint.value.equivalent_smartphone_charges],
                qualityScore |-> model.quality_score,
                costEfficiency |-> round(cost_efficiency(model, footprint.value), 1)])

\* the entry compare_models appends for a resolved model, or the exception
\* calculate_eco_score or calculate_full_footprint raised
EntryOf(model_id, model, eco_score, footprint) ==
    IF eco_score.raised THEN eco_score
    ELSE IF footprint.raised THEN footprint
    ELSE Return(
               [modelId |-> model_id,
                displayName |-> model.display_name,
                ecoScore |-> eco_score.value,
                footprint |->
                   [energyKwhPer1kRequests |-> footprint.value.energy_kwh,
                    co2eGramsPer1kRequests |-> footprint.value.co2e_grams,
                    waterLitersPer1kRequests |-> footprint.value.water_liters,
                    hardwareAmortizedGramsPer1kRequests |->
                        footprint.value.hardware_amortized_grams,
                    totalEquivalentKmDriving |-> footprint.value.equivalent_km_driving,
                    totalEquivalentSmartphoneCharges |->
                        footprint.value.equivalent_smartphone_charges],
                qualityScore |-> model.quality_score,
                costEfficiency |-> round(cost_efficiency(model, footprint.value), 1)])

\* one iteration of the loop of compare_models: the entry of model_id, or
\* the exception its lookups raise
CompareEntry(db, model_id, region_id, total_tokens, requests_per_1k, weights) ==
    LET model == get_model_profile(db, model_id)
    IN  IF model.raised THEN model
        ELSE EntryOf(model_id, model.value,
                     calculate_eco_score(db, model_id, region_id, Some(weights), None),
                     calculate_full_footprint(
                        db, FootprintInput(model_id, region_id, total_tokens,
                                           requests_per_1k)))

\* the loop of compare_models from position i on: all entries, or the first
\* exception raised
RECURSIVE CompareEntries(_, _, _, _, _, _, _, _)
RECURSIVE AppendEntry(_, _, _, _, _, _, _, _, _)
CompareEntries(db, model_ids, region_id, total_tokens, requests_per_1k, weights, i, entries) ==
    IF i > Len(model_ids) THEN Return(entries)
    ELSE AppendEntry(db, model_ids, region_id, total_tokens, requests_per_1k, weights, i,
                     entries,
                     CompareEntry(db, model_ids[i], region_id, total_tokens,
                                  requests_per_1k, weights))

\* AppendEntry skipping a model id that already has an entry
AppendEntry_dedup(db, model_ids, region_id, total_tokens, requests_per_1k, weights, i, entries, entry) ==
    IF entry.raised THEN entry
    ELSE CompareEntries(db, model_ids, region_id, total_tokens, requests_per_1k, weights,
                        i + 1,
                        IF \E k \in DOMAIN entries : entries[k].modelId = entry.value.modelId
                        THEN entries
                        ELSE Append(entries, entry.value))

AppendEntry(db, model_ids, region_id, total_tokens, requests_per_1k, weights, i, entries, entry) ==
    IF entry.raised THEN entry
    ELSE CompareEntries(db, model_ids, region_id, total_tokens, requests_per_1k, weights,
                        i + 1, Append(entries, entry.value))

\* sorted(...): the positions 1..i of keys in sorted order; equal keys keep
\* their input order, also with reverse=True
RECURSIVE SortedPositions(_, _, _)
SortedPositions(keys, reverse, i) ==
    IF i = 0 THEN <<>>
    ELSE LET s == SortedPositions(keys, reverse, i - 1)
             p == Cardinality({k \in 1..Len(s) :
                                  IF reverse THEN RGe(keys[s[k]], keys[i])
                                             ELSE RLe(keys[s[k]], keys[i])})
         IN  SubSeq(s, 1, p) \o <<i>> \o SubSeq(s, p + 1, Len(s))

\* sorted with reverse=True taken as the ascending order read backwards
sorted_backwards(entries, keys, reverse) ==
    LET s == SortedPositions(keys, FALSE, Len(entries))
    IN  [k \in 1..Len(entries) |->
            entries[s[IF reverse THEN Len(entries) + 1 - k ELSE k]]]

\* sorted without reverse=True
sorted_ascending(entries, keys, reverse) ==
    LET s == SortedPositions(keys, FALSE, Len(entries))
    IN  [k \in 1..Len(entries) |-> entries[s[k]]]

sorted(entries, keys, reverse) ==
    LET s == SortedPositions(keys, reverse, Len(entries))
    IN  [k \in 1..Len(entries) |-> entries[s[k]]]

\* improvement_pct as the remaining share of the emissions
improvement_pct_remaining(best_efficiency, worst_entry) ==
    IF RGt(worst_entry.footprint.co2eGramsPer1kRequests, Zero)
    THEN RoundInt(RMul(RDiv(best_efficiency.footprint.co2eGramsPer1kRequests,
                            worst_entry.footprint.co2eGramsPer1kRequests),
                       Int2Rat(100)))
    ELSE 0

\* improvement_pct with the two entries exchanged in the quotient
improvement_pct_exchanged(best_efficiency, worst_entry) ==
    IF RGt(worst_entry.footprint.co2eGramsPer1kRequests, Zero)
    THEN RoundInt(RMul(RSub(Int2Rat(1),
                            RDiv(worst_entry.footprint.co2eGramsPer1kRequests,
                                 best_efficiency.footprint.co2eGramsPer1kRequests)),
                       Int2Rat(100)))
    ELSE 0

\* the emissions saved by switching from the lowest-EcoScore entry to the
\* best-efficiency entry, in percent
improvement_pct(best_efficiency, worst_entry) ==
    IF RGt(worst_entry.footprint.co2eGramsPer1kRequests, Zero)
    THEN RoundInt(RMul(RSub(Int2Rat(1),
                            RDiv(best_efficiency.footprint.co2eGramsPer1kRequests,
                                 worst_entry.footprint.co2eGramsPer1kRequests)),
                       Int2Rat(100)))
    ELSE 0

\* the recommendation compare_models builds from a non-empty list of entries
RecommendationOf(db, entries, region_id, requests_per_1k) ==
    LET sorted_by_score ==
            sorted(entries, [k \in 1..Len(entries) |-> entries[k].ecoScore.overall], TRUE)
        sorted_by_efficiency ==
            sorted(entries,
                   [k \in 1..Len(entries) |-> entries[k].footprint.co2eGramsPer1kRequests],
                   FALSE)
        sorted_by_cost_efficiency ==
            sorted(entries, [k \in 1..Len(entries) |-> entries[k].costEfficiency], TRUE)
        best_overall == sorted_by_score[1]
        best_efficiency == sorted_by_efficiency[1]
        best_quality_per_carbon == sorted_by_cost_efficiency[1]
        tradeoffs1 ==
            IF best_overall.modelId # best_efficiency.modelId
            THEN << <<"has the best overall EcoScore but has lower absolute emissions",
                      best_overall.displayName, best_efficiency.displayName>> >>
            ELSE <<>>
        tradeoffs2 ==
            IF best_overall.modelId # best_quality_per_carbon.modelId
            THEN << <<"delivers the most quality per unit of carbon",
                      best_quality_per_carbon.displayName>> >>
            ELSE <<>>
        worst_entry == sorted_by_score[Len(sorted_by_score)]
        tradeoffs3 ==
            IF improvement_pct(best_efficiency, worst_entry) > 10
            THEN << <<"Switching from to could reduce emissions",
                      worst_entry.displayName, best_efficiency.displayName,
                      improvement_pct(best_efficiency, worst_entry),
                      worst_entry.qualityScore, best_quality_per_carbon.qualityScore>> >>
            ELSE <<>>
        location == get_grid_intensity(db, region_id)
    IN  IF location.raised THEN location
        ELSE Return(
               [bestOverall |-> best_overall.modelId,
                bestEfficiency |-> best_efficiency.modelId,
                bestQualityPerCarbon |-> best_quality_per_carbon.modelId,
                narrative |->
                    <<requests_per_1k, location.value.location,
                      best_overall.displayName, best_overall.ecoScore.grade,
                      best_overall.ecoScore.overall,
                      best_efficiency.displayName,
                      round(best_efficiency.footprint.co2eGramsPer1kRequests, 1),
                      best_quality_per_carbon.displayName,
                      best_quality_per_carbon.costEfficiency>>,
                tradeoffs |-> tradeoffs1 \o tradeoffs2 \o tradeoffs3])

\* ComparisonOf resolving the region before it indexes the sorted entries
ComparisonOf_region_first(db, entries, region_id, requests_per_1k, scenario_assumptions) ==
    IF entries.raised THEN entries
    ELSE IF get_grid_intensity(db, region_id).raised THEN get_grid_intensity(db, region_id)
    ELSE IF entries.value = <<>>
    THEN Raise("IndexError", <<"list index out of range">>)
    ELSE LET recommendation ==
                RecommendationOf(db, entries.value, region_id, requests_per_1k)
         IN  IF recommendation.raised THEN recommendation
             ELSE Return([models |-> entries.value,
                          recommendation |-> recommendation.value,
                          scenarioAssumptions |-> scenario_assumptions])

\* compare_models after its loop
ComparisonOf(db, entries, region_id, requests_per_1k, scenario_assumptions) ==
    IF entries.raised THEN entries
    ELSE IF entries.value = <<>>
    THEN Raise("IndexError", <<"list index out of range">>)
    ELSE LET recommendation ==
                RecommendationOf(db, entries.value, region_id, requests_per_1k)
         IN  IF recommendation.raised THEN recommendation
             ELSE Return([models |-> entries.value,
                          recommendation |-> recommendation.value,
                          scenarioAssumptions |-> scenario_assumptions])

\* weights is Optional
compare_models(db, model_ids, region_id, requests_per_1k, avg_tokens_per_request, weights) ==
    LET w == IF weights = None THEN DEFAULT_ECOSCORE_WEIGHTS ELSE weights[1]
        total_tokens == requests_per_1k * avg_tokens_per_request
        scenario_assumptions ==
            << <<"Comparison scenario", requests_per_1k, avg_tokens_per_request>>,
               <<"Region", region_id>>,
               <<"Total tokens evaluated", total_tokens>> >>
    IN  ComparisonOf(db,
                     CompareEntries(db, model_ids, region_id, total_tokens, requests_per_1k,
                                    w, 1, <<>>),
                     region_id, requests_per_1k, scenario_assumptions)

-----------------------------------------------------------------------------
(* Bounds of the model and the inputs the operations are called with.      *)

\* custom models create_custom_model may add
MaxCustomModels == 1

\* rows calculate_footprint may add to calculation_logs
MaxLogs == 1

\* longest model_ids list compare_models is called with
MaxCompare == 2

\* uuid4 values: the id and the slug of the i-th custom model
CustomId(i) == "uuid-c" \o ToString(i)

CustomSlug(i) == "custom-" \o ToString(i)

\* model references callers pass: an id, a slug, the custom models' ids and
\* slugs, and an id no row has
ModelRefs ==
    {"gpt35", "uuid-2", "no-such-model"}
        \cup {CustomId(i) : i \in 1..MaxCustomModels}
        \cup {CustomSlug(i) : i \in 1..MaxCustomModels}

RegionRefs == {"us-west-2", "no-such-region"}

\* AIModelCreate bodies
CustomModelBodies ==
    {[display_name |-> "Acme LLM", family |-> f,
      energy_per_million_tokens_kwh |-> Rat(6, 100),
      default_gpu |-> "nvidia-t4", gpu_count_inference |-> 1,
      tokens_per_second_per_gpu |-> 100, quality_score |-> 90] :
        f \in {"custom"}}

\* all sequences over S of length 0..n
RECURSIVE SeqsUpTo(_, _)
SeqsUpTo(S, n) ==
    IF n = 0 THEN {<<>>}
    ELSE LET shorter == SeqsUpTo(S, n - 1)
         IN  shorter \cup {Append(q, x) : q \in {r \in shorter : Len(r) = n - 1}, x \in S}

-----------------------------------------------------------------------------
(* The state after seed_database.                                          *)

\* no call is in progress and no response is waiting for its caller
NoCall == [op |-> "none"]

Init ==
    /\ ai_models = SeedAIModels
    /\ gpu_profiles = SeedGpuProfiles
    /\ grid_carbon_intensities = SeedGridCarbonIntensities
    /\ organizations = {"default"}
    /\ calculation_logs = <<>>
    /\ last = NoCall

\* the API on a database whose reference tables are loaded: with the default
\* organization seed_database creates first, or without a row of that slug
\* (organization_id is nullable in ai_models; the handlers test for the row)
InitApi ==
    /\ ai_models = SeedAIModels
    /\ gpu_profiles = SeedGpuProfiles
    /\ grid_carbon_intensities = SeedGridCarbonIntensities
    /\ organizations \in {{"default"}, {}}
    /\ calculation_logs = <<>>
    /\ last = NoCall

Tables == <<ai_models, gpu_profiles, grid_carbon_intensities, organizations,
            calculation_logs>>

-----------------------------------------------------------------------------
(* Engine calls.  Each action is one call of a CalculatorService method on *)
(* the current tables; last records the arguments and the outcome.         *)

\* CallCalculateFullFootprint keeping an audit row of the call in calculation_logs
CallCalculateFullFootprint_logging(inputs) ==
    /\ last = NoCall
    /\ \E input_data \in inputs :
        /\ last' = [op |-> "calculate_full_footprint", input |-> input_data,
                    outcome |-> calculate_full_footprint(Db, input_data)]
        /\ calculation_logs' =
                IF Len(calculation_logs) < MaxLogs
                THEN Append(calculation_logs,
                            [model_id |-> input_data.model_id,
                             region_id |-> input_data.region_id,
                             request_count |-> input_data.request_count])
                ELSE calculation_logs
        /\ UNCHANGED <<ai_models, gpu_profiles, grid_carbon_intensities, organizations>>

CallCalculateFullFootprint(inputs) ==
    /\ last = NoCall
    /\ \E input_data \in inputs :
        /\ last' = [op |-> "calculate_full_footprint", input |-> input_data,
                    outcome |-> calculate_full_footprint(Db, input_data)]
        /\ UNCHANGED Tables

CallCalculateEcoScore(model_ids, region_ids, weightss, gpu_overrides) ==
    /\ last = NoCall
    /\ \E model_id \in model_ids, region_id \in region_ids,
       weights \in weightss, gpu_override \in gpu_overrides :
        /\ last' = [op |-> "calculate_eco_score", model_id |-> model_id,
                    region_id |-> region_id, weights |-> weights,
                    gpu_override |-> gpu_override,
                    outcome |-> calculate_eco_score(Db, model_id, region_id, weights,
                                                    gpu_override)]
        /\ UNCHANGED Tables

CallCompareModels(model_idss, region_ids, requests, tokens, weightss) ==
    /\ last = NoCall
    /\ \E model_ids \in model_idss, region_id \in region_ids, requests_per_1k \in requests,
       avg_tokens_per_request \in tokens, weights \in weightss :
        /\ last' = [op |-> "compare_models", model_ids |-> model_ids,
                    region_id |-> region_id, requests_per_1k |-> requests_per_1k,
                    avg_tokens_per_request |-> avg_tokens_per_request,
                    weights |-> weights,
                    outcome |-> compare_models(Db, model_ids, region_id, requests_per_1k,
                                               avg_tokens_per_request, weights)]
        /\ UNCHANGED Tables

-----------------------------------------------------------------------------
(* API handlers (api.py).  last records the request and the response: a    *)
(* status code with a body, or with the detail of an HTTPException.        *)

Response(status, body) == [status |-> status, body |-> body]

HTTPException(status_code, detail) == [status |-> status_code, detail |-> detail]

\* the value a DECIMAL(p, scale) column keeps of x: scale decimals, a tie
\* rounded away from zero
DecimalColumn(x, scale) ==
    LET y == RMul(IF x.n < 0 THEN RNeg(x) ELSE x, Int2Rat(Pow10(scale)))
        q == y.n \div y.d
        r == IF 2 * (y.n % y.d) >= y.d THEN q + 1 ELSE q
    IN  Rat(IF x.n < 0 THEN -r ELSE r, Pow10(scale))

\* POST /api/v1/models
create_custom_model ==
    /\ last = NoCall
    /\ \E model \in CustomModelBodies :
        IF "default" \notin organizations
        THEN /\ last' = [op |-> "create_custom_model", model |-> model,
                         response |-> HTTPException(500, <<"Default organization not found">>)]
             /\ UNCHANGED Tables
        ELSE \E i \in 1..MaxCustomModels :
                /\ CustomId(i) \notin DOMAIN ai_models
                /\ \A j \in 1..(i - 1) : CustomId(j) \in DOMAIN ai_models
                /\ LET db_model ==
                          [id |-> CustomId(i), slug |-> CustomSlug(i),
                           display_name |-> model.display_name,
                           family |-> model.family,
                           energy_per_million_tokens_kwh |->
                               model.energy_per_million_tokens_kwh,
                           default_gpu |-> model.default_gpu,
                           gpu_count_inference |-> model.gpu_count_inference,
                           tokens_per_second_per_gpu |-> model.tokens_per_second_per_gpu,
                           quality_score |-> model.quality_score,
                           is_predefined |-> FALSE, is_active |-> TRUE]
                   IN  /\ ai_models' =
                            [k \in DOMAIN ai_models \cup {db_model.id} |->
                                IF k = db_model.id THEN db_model ELSE ai_models[k]]
                       /\ last' = [op |-> "create_custom_model", model |-> model,
                                   response |-> Response(201, db_model)]
                /\ UNCHANGED <<gpu_profiles, grid_carbon_intensities, organizations,
                               calculation_logs>>

\* PUT /api/v1/models/{model_id}: the handler only raises
update_custom_model ==
    /\ last = NoCall
    /\ \E model_id \in ModelRefs :
        /\ last' = [op |-> "update_custom_model", model_id |-> model_id,
                    response |-> HTTPException(404, <<"Model not found", model_id>>)]
        /\ UNCHANGED Tables

\* DELETE /api/v1/models/{model_id}: the handler only raises
delete_custom_model ==
    /\ last = NoCall
    /\ \E model_id \in ModelRefs :
        /\ last' = [op |-> "delete_custom_model", model_id |-> model_id,
                    response |-> HTTPException(404, <<"Model not found", model_id>>)]
        /\ UNCHANGED Tables

\* the soft delete the management layer runs on the table, as the docstring of
\* delete_custom_model gives it:
\*   UPDATE ai_models SET is_active = FALSE WHERE id = $1 AND is_predefined = FALSE
SoftDelete ==
    /\ last = NoCall
    /\ \E i \in DOMAIN ai_models :
        /\ ai_models[i].is_predefined = FALSE
        /\ ai_models' = [ai_models EXCEPT ![i].is_active = FALSE]
        /\ last' = [op |-> "soft_delete", model_id |-> i]
        /\ UNCHANGED <<gpu_profiles, grid_carbon_intensities, organizations,
                       calculation_logs>>

\* GET /api/v1/models (the category filter and the order of the list are not
\* represented)
list_models ==
    /\ last = NoCall
    /\ \E include_custom \in BOOLEAN, include_predefined \in BOOLEAN :
        LET models ==
                {ai_models[i] : i \in
                    {k \in DOMAIN ai_models :
                        /\ ai_models[k].is_active = TRUE
                        /\ (include_predefined /\ ~include_custom)
                               => ai_models[k].is_predefined = TRUE
                        /\ (include_custom /\ ~include_predefined)
                               => ai_models[k].is_predefined = FALSE}}
        IN  /\ last' = [op |-> "list_models", include_custom |-> include_custom,
                        include_predefined |-> include_predefined,
                        resolved |-> models,
                        response |-> Response(200,
                            [models |-> models,
                             total |-> Cardinality(models),
                             predefined_count |->
                                 Cardinality({m \in models : m.is_predefined}),
                             custom_count |->
                                 Cardinality(models)
                                     - Cardinality({m \in models : m.is_predefined})])]
            /\ UNCHANGED Tables

\* GET /api/v1/models/{model_id}
get_model ==
    /\ last = NoCall
    /\ \E model_id \in ModelRefs :
        LET matches == ActiveModelMatches(Db, model_id)
            model == ai_models[CHOOSE i \in matches : TRUE]
        IN  /\ last' = IF matches = {}
                       THEN [op |-> "get_model", model_id |-> model_id, resolved |-> {},
                             response |-> HTTPException(404, <<"Model not found", model_id>>)]
                       ELSE [op |-> "get_model", model_id |-> model_id,
                             resolved |-> {model},
                             response |-> Response(200, model)]
            /\ UNCHANGED Tables

\* CalculationRequest bodies the handler is called with
CalculationRequests ==
    [model_id : ModelRefs, region_id : RegionRefs, request_count : {1000},
     avg_tokens_per_request : {1000}, pue : {None}, wue : {None},
     persist : BOOLEAN]

\* CalculationLog storing the CO2e in kilograms
CalculationLog_co2e_kg(request, resolved_model, total_tokens, result, eco_score_result) ==
    [model_id |-> resolved_model.id,
     region_id |-> request.region_id,
     request_count |-> request.request_count,
     avg_tokens_per_request |-> request.avg_tokens_per_request,
     total_tokens |-> total_tokens,
     energy_kwh |-> DecimalColumn(result.energy_kwh, 6),
     co2e_grams |-> DecimalColumn(RDiv(result.co2e_grams, Int2Rat(1000)), 4),
     water_liters |-> DecimalColumn(result.water_liters, 6),
     hardware_amortized_grams |-> DecimalColumn(result.hardware_amortized_grams, 6),
     eco_score |-> DecimalColumn(eco_score_result.overall, 1),
     eco_grade |-> eco_score_result.grade,
     pue_factor |-> IF request.pue # None /\ request.pue[1] # Zero
                    THEN Some(DecimalColumn(request.pue[1], 2)) ELSE None,
     wue_factor |-> IF request.wue # None /\ request.wue[1] # Zero
                    THEN Some(DecimalColumn(request.wue[1], 2)) ELSE None,
     organization_id |-> "default"]

\* the row calculate_footprint adds to calculation_logs
CalculationLog(request, resolved_model, total_tokens, result, eco_score_result) ==
    [model_id |-> resolved_model.id,
     region_id |-> request.region_id,
     request_count |-> request.request_count,
     avg_tokens_per_request |-> request.avg_tokens_per_request,
     total_tokens |-> total_tokens,
     energy_kwh |-> DecimalColumn(result.energy_kwh, 6),
     co2e_grams |-> DecimalColumn(result.co2e_grams, 4),
     water_liters |-> DecimalColumn(result.water_liters, 6),
     hardware_amortized_grams |-> DecimalColumn(result.hardware_amortized_grams, 6),
     eco_score |-> DecimalColumn(eco_score_result.overall, 1),
     eco_grade |-> eco_score_result.grade,
     pue_factor |-> IF request.pue # None /\ request.pue[1] # Zero
                    THEN Some(DecimalColumn(request.pue[1], 2)) ELSE None,
     wue_factor |-> IF request.wue # None /\ request.wue[1] # Zero
                    THEN Some(DecimalColumn(request.wue[1], 2)) ELSE None,
     organization_id |-> "default"]

\* the CalculationResponse of calculate_footprint
CalculationResponse(result, eco_score_result) ==
    [energy_kwh |-> result.energy_kwh,
     co2e_grams |-> result.co2e_grams,
     water_liters |-> result.water_liters,
     hardware_amortized_grams |-> result.hardware_amortized_grams,
     duration_hours |-> result.duration_hours,
     energy_per_request |-> result.energy_per_request,
     co2e_per_request |-> result.co2e_per_request,
     water_per_request |-> result.water_per_request,
     eco_score |-> eco_score_result.overall,
     eco_grade |-> eco_score_result.grade,
     equivalent_km_driving |-> result.equivalent_km_driving,
     equivalent_smartphone_charges |-> result.equivalent_smartphone_charges,
     assumptions |-> result.assumptions \o eco_score_result.assumptions,
     confidence |-> eco_score_result.confidence]

\* what last records of a call of calculate_footprint
CalculationCalled(request, response) ==
    [op |-> "calculate_footprint", request |-> request, response |-> response]

\* the exception handlers of calculate_footprint: except ValueError: 400 with
\* str(e); except Exception: 500
CalculationFailed(request, failure) ==
    /\ last' = CalculationCalled(request,
                                 IF failure.type = "ValueError"
                                 THEN HTTPException(400, failure.msg)
                                 ELSE HTTPException(500, <<"Calculation failed", failure.msg>>))
    /\ UNCHANGED Tables

\* calculate_footprint after its two engine calls: the optional log row and
\* the response
AnswerCalculation(request, resolved_model, total_tokens, result, eco_score_result) ==
    IF result.raised THEN CalculationFailed(request, result)
    ELSE IF eco_score_result.raised THEN CalculationFailed(request, eco_score_result)
    ELSE IF request.persist /\ "default" \notin organizations
    THEN /\ last' = CalculationCalled(
                        request,
                        HTTPException(500, <<"Default organization not found; run seed.py">>))
         /\ UNCHANGED Tables
    ELSE /\ request.persist => Len(calculation_logs) < MaxLogs
         /\ calculation_logs' =
                IF request.persist
                THEN Append(calculation_logs,
                            CalculationLog(request, resolved_model, total_tokens,
                                           result.value, eco_score_result.value))
                ELSE calculation_logs
         /\ last' = CalculationCalled(
                        request,
                        Response(200, CalculationResponse(result.value,
                                                          eco_score_result.value)))
         /\ UNCHANGED <<ai_models, gpu_profiles, grid_carbon_intensities, organizations>>

\* calculate_footprint after it resolved the model: the FootprintInput it
\* builds and its two engine calls
CalculationOf(request, resolved_model, total_tokens) ==
    IF resolved_model.raised THEN CalculationFailed(request, resolved_model)
    ELSE AnswerCalculation(
            request, resolved_model.value, total_tokens,
            calculate_full_footprint(
                Db, [model_id |-> resolved_model.value.id,
                     region_id |-> request.region_id,
                     total_tokens |-> total_tokens,
                     request_count |-> request.request_count,
                     avg_tokens_per_request |-> Some(request.avg_tokens_per_request),
                     gpu_override |-> None,
                     pue |-> request.pue,
                     wue |-> request.wue]),
            calculate_eco_score(Db, request.model_id, request.region_id, None, None))

\* POST /api/v1/calculate
calculate_footprint ==
    /\ last = NoCall
    /\ \E request \in CalculationRequests :
        CalculationOf(request, get_model_profile(Db, request.model_id),
                      request.request_count * request.avg_tokens_per_request)

\* the model ids of the logs, and the per-model sums both aggregations build
LoggedModelIds == {calculation_logs[k].model_id : k \in DOMAIN calculation_logs}

RECURSIVE SumRequests(_, _)
SumRequests(mid, k) ==
    IF k = 0 THEN 0
    ELSE SumRequests(mid, k - 1)
            + (IF calculation_logs[k].model_id = mid
               THEN calculation_logs[k].request_count ELSE 0)

\* db.query(AIModel).filter(AIModel.id.in_(model_ids)).all()
ModelsByIdIn(model_ids) == {ai_models[i] : i \in DOMAIN ai_models \cap model_ids}

\* GET /api/v1/analytics: the per-model breakdown (the time series, the
\* recent activity, the window of days and the order are not represented)
get_analytics ==
    /\ last = NoCall
    /\ LET models == ModelsByIdIn(LoggedModelIds)
            model_breakdown ==
                {[model_id |-> mid,
                  display_name |-> IF \E m \in models : m.id = mid
                                   THEN (CHOOSE m \in models : m.id = mid).display_name
                                   ELSE mid,
                  requests |-> SumRequests(mid, Len(calculation_logs))] :
                    mid \in LoggedModelIds}
        IN  /\ last' = IF "default" \notin organizations
                       THEN [op |-> "get_analytics", resolved |-> {},
                             response |-> HTTPException(404, <<"Default organization not found">>)]
                       ELSE [op |-> "get_analytics", resolved |-> models,
                             response |-> Response(200, [model_breakdown |-> model_breakdown])]
            /\ UNCHANGED Tables

\* GET /api/v1/dashboard: the per-model usage (the totals, the trend, the time
\* series and the order are not represented)
get_dashboard_metrics ==
    /\ last = NoCall
    /\ LET models == IF calculation_logs = <<>> THEN {} ELSE ModelsByIdIn(LoggedModelIds)
            model_usage ==
                {[model_id |-> m.id,
                  display_name |-> m.display_name,
                  quality_score |-> m.quality_score,
                  requests |-> SumRequests(m.id, Len(calculation_logs))] : m \in models}
        IN  /\ last' = IF "default" \notin organizations
                       THEN [op |-> "get_dashboard_metrics", resolved |-> {},
                             response |-> HTTPException(404, <<"Default organization not found">>)]
                       ELSE [op |-> "get_dashboard_metrics", resolved |-> models,
                             response |-> Response(200, [model_usage |-> model_usage])]
            /\ UNCHANGED Tables

\* ModelComparisonRequest bodies the handler is called with: no model id or one
ModelComparisonRequests ==
    [model_ids : SeqsUpTo({"gpt35", "no-such-model"}, 1), region_id : RegionRefs,
     requests_per_1k : {1000}, avg_tokens_per_request : {1000}, weights : {None}]

\* the answer of POST /api/v1/compare to the outcome of the engine call:
\* except ValueError: 400 with str(e); except Exception: 500
CompareResponse(result) ==
    IF ~result.raised THEN Response(200, result.value)
    ELSE IF result.type = "ValueError" THEN HTTPException(400, result.msg)
    ELSE HTTPException(500, <<"Comparison failed", result.msg>>)

\* POST /api/v1/compare
api_compare_models ==
    /\ last = NoCall
    /\ \E request \in ModelComparisonRequests :
        /\ last' = [op |-> "api_compare_models", request |-> request,
                    response |->
                        CompareResponse(
                            compare_models(Db, request.model_ids, request.region_id,
                                           request.requests_per_1k,
                                           request.avg_tokens_per_request,
                                           request.weights))]
        /\ UNCHANGED Tables

-----------------------------------------------------------------------------
(* The system: the API handlers, the management layer and direct engine    *)
(* calls on the tables they leave.                                         *)

FootprintInputs ==
    [model_id : ModelRefs, region_id : RegionRefs, total_tokens : {1000000},
     request_count : {1000}, avg_tokens_per_request : {None},
     gpu_override : {None, Some("no-such-gpu")}, pue : {None}, wue : {None}]

EngineFootprint == CallCalculateFullFootprint(FootprintInputs)

EngineEcoScore == CallCalculateEcoScore(ModelRefs, RegionRefs, {None}, {None})

\* model ids to list in a comparison: a slug, an id, an unknown id and the ids
\* of the custom models
CompareRefs ==
    {"gpt35", "uuid-2", "no-such-model"} \cup {CustomId(i) : i \in 1..MaxCustomModels}

EngineCompare ==
    CallCompareModels(SeqsUpTo(CompareRefs, MaxCompare), RegionRefs, {1000}, {1000}, {None})

\* the caller takes the response; the next call can start
TakeResponse ==
    /\ last # NoCall
    /\ last' = NoCall
    /\ UNCHANGED Tables

Next ==
    \/ create_custom_model
    \/ update_custom_model
    \/ delete_custom_model
    \/ SoftDelete
    \/ list_models
    \/ get_model
    \/ calculate_footprint
    \/ get_analytics
    \/ get_dashboard_metrics
    \/ api_compare_models
    \/ EngineFootprint
    \/ EngineEcoScore
    \/ EngineCompare
    \/ TakeResponse

Spec == InitApi /\ [][Next]_vars

-----------------------------------------------------------------------------
(* The engine on the seeded catalog: calls of the calculator and of its    *)
(* numeric helpers over ranges of arguments.                               *)

\* total_tokens range over the multiples of half a million up to this many
\* steps, and over one negative count
MaxTokenSteps == 4

TokenCounts == {k * 500000 : k \in (-2)..MaxTokenSteps}

\* values to normalize range over the quarters up to this many steps
MaxNormSteps == 24

PueOverrides == {None, Some(Int2Rat(1)), Some(Rat(3, 2)), Some(Int2Rat(3))}

WueOverrides == {None, Some(Zero), Some(Rat(5, 2)), Some(Int2Rat(5))}

CalcFootprintInputs ==
    [model_id : {"gpt35", "uuid-2"},
     region_id : {"us-west-2", "af-south-1"},
     total_tokens : TokenCounts,
     request_count : {-1, 0, 1, 1000},
     avg_tokens_per_request : {None},
     gpu_override : {None, Some("nvidia-t4")},
     pue : PueOverrides,
     wue : WueOverrides]

\* (best, worst) pairs with 0 < best < worst: the four benchmarks normalized
\* logarithmically and three more
LogBenchmarkPairs ==
    {ECOSCORE_BENCHMARKS.energyPerMillionTokens,
     ECOSCORE_BENCHMARKS.co2ePerMillionTokens,
     ECOSCORE_BENCHMARKS.waterPerMillionTokens,
     ECOSCORE_BENCHMARKS.hardwareAmortizedPerMillionTokens,
     [best |-> Rat(1, 2), worst |-> Int2Rat(4)],
     [best |-> Int2Rat(1), worst |-> Int2Rat(2)],
     [best |-> Rat(3, 4), worst |-> Int2Rat(1)]}

LogValues ==
    {Rat(k, 4) : k \in (-2)..MaxNormSteps}
        \cup {p.best : p \in LogBenchmarkPairs}
        \cup {p.worst : p \in LogBenchmarkPairs}
        \cup {Rat(4, 100), Int2Rat(100), Int2Rat(1000), Int2Rat(3000)}

\* (worst, best) pairs with worst < best: the renewable benchmark and two more
LinearBenchmarkPairs ==
    {[worst |-> ECOSCORE_BENCHMARKS.renewablePercentage.worst,
      best |-> ECOSCORE_BENCHMARKS.renewablePercentage.best],
     [worst |-> Int2Rat(20), best |-> Int2Rat(60)],
     [worst |-> Int2Rat(-4), best |-> Rat(9, 2)]}

LinearValues == {Int2Rat(k) : k \in (-5)..105} \cup {Rat(k, 4) : k \in (-2)..MaxNormSteps}

\* weights arguments: absent, uniform, all on energy, one negative weight (the
\* five still summing to 1), and five weights of 1
WeightOverrides ==
    {None,
     Some([energyEfficiency |-> Rat(1, 5), carbonIntensity |-> Rat(1, 5),
           waterUsage |-> Rat(1, 5), hardwareLifecycle |-> Rat(1, 5),
           renewableAlignment |-> Rat(1, 5)]),
     Some([energyEfficiency |-> Int2Rat(1), carbonIntensity |-> Zero,
           waterUsage |-> Zero, hardwareLifecycle |-> Zero,
           renewableAlignment |-> Zero]),
     Some([energyEfficiency |-> Rat(13, 10), carbonIntensity |-> Rat(-3, 10),
           waterUsage |-> Zero, hardwareLifecycle |-> Zero,
           renewableAlignment |-> Zero]),
     Some([energyEfficiency |-> Int2Rat(1), carbonIntensity |-> Int2Rat(1),
           waterUsage |-> Int2Rat(1), hardwareLifecycle |-> Int2Rat(1),
           renewableAlignment |-> Int2Rat(1)])}

WeightsOf(weights) == IF weights = None THEN DEFAULT_ECOSCORE_WEIGHTS ELSE weights[1]

CalcFullFootprint == CallCalculateFullFootprint(CalcFootprintInputs)

CalcEcoScore ==
    CallCalculateEcoScore({"gpt35", "uuid-2", "no-such-model"},
                          DOMAIN SeedGridCarbonIntensities \cup {"no-such-region"},
                          WeightOverrides, {None, Some("nvidia-t4"), Some("no-such-gpu")})

CalcEnergy ==
    /\ last = NoCall
    /\ \E total_tokens \in TokenCounts, i \in DOMAIN ai_models, pue \in PueOverrides :
        /\ last' = [op |-> "calculate_energy", total_tokens |-> total_tokens,
                    model |-> ai_models[i], pue |-> pue,
                    outcome |-> IF pue = None
                                THEN calculate_energy(total_tokens, ai_models[i], DEFAULT_PUE)
                                ELSE calculate_energy(total_tokens, ai_models[i], pue[1])]
        /\ UNCHANGED Tables

CalcLogNormalize ==
    /\ last = NoCall
    /\ \E value \in LogValues, p \in LogBenchmarkPairs :
        /\ last' = [op |-> "log_normalize", value |-> value, best |-> p.best,
                    worst |-> p.worst,
                    outcome |-> log_normalize(value, p.best, p.worst)]
        /\ UNCHANGED Tables

CalcLinearNormalize ==
    /\ last = NoCall
    /\ \E value \in LinearValues, p \in LinearBenchmarkPairs :
        /\ last' = [op |-> "linear_normalize", value |-> value, worst |-> p.worst,
                    best |-> p.best,
                    outcome |-> linear_normalize(value, p.worst, p.best)]
        /\ UNCHANGED Tables

\* sub-scores the normalizations can return
SubScores == {Int2Rat(0), Rat(435, 10), Int2Rat(100)}

\* the overall calculate_eco_score returns for five sub-scores (energy, carbon,
\* water, hardware, renewable)
ReturnedOverall(weights, scores) ==
    round(overall(weights, scores[1], scores[2], scores[3], scores[4], scores[5]), 1)

CalcOverall ==
    /\ last = NoCall
    /\ \E weights \in WeightOverrides, scores \in [1..5 -> SubScores] :
        /\ last' = [op |-> "overall", weights |-> WeightsOf(weights), scores |-> scores,
                    outcome |-> ReturnedOverall(WeightsOf(weights), scores)]
        /\ UNCHANGED Tables

\* scores to grade: the twentieths from -1 to 101
GradeScores == {Rat(k, 20) : k \in (-20)..2020}

CalcGrade ==
    /\ last = NoCall
    /\ \E score \in GradeScores :
        /\ last' = [op |-> "get_grade", score |-> score, outcome |-> get_grade(score)]
        /\ UNCHANGED Tables

\* comparisons of the seeded models, one of them listed by slug and by id
CalcCompareRefs == {"gpt35", "uuid-1", "uuid-2"}

CompareRequestCounts == {0, 1000, 2000}

CompareTokenCounts == {500, 1000}

CalcCompare ==
    CallCompareModels(SeqsUpTo(CalcCompareRefs, MaxCompare),
                      DOMAIN SeedGridCarbonIntensities,
                      CompareRequestCounts, CompareTokenCounts,
                      {None, Some([energyEfficiency |-> Int2Rat(1), carbonIntensity |-> Zero,
                                   waterUsage |-> Zero, hardwareLifecycle |-> Zero,
                                   renewableAlignment |-> Zero])})

NextCalc ==
    \/ CalcFullFootprint
    \/ CalcCompare
    \/ CalcGrade
    \/ CalcOverall
    \/ CalcEcoScore
    \/ CalcEnergy
    \/ CalcLogNormalize
    \/ CalcLinearNormalize
    \/ TakeResponse

SpecCalc == Init /\ [][NextCalc]_vars

-----------------------------------------------------------------------------
(* One calculate_full_footprint call in its session, lookup by lookup,     *)
(* while other sessions write the grid table.  The call's first three      *)
(* queries are one step and the rest of the call, with the query           *)
(* calculate_co2e makes, is another.  A Session keeps the rows it loaded   *)
(* by primary key and hands the kept object out again when a later query   *)
(* returns the same row; what a later query sees of the other sessions'    *)
(* commits depends on the isolation level of the database.                 *)

\* regions whose grid row other sessions write
GridWriteRegions == {"us-west-2", "af-south-1"}

\* the uuid of a row inserted after seeding
FreshGridId == "uuid-g-new"

\* a revision of the seeded row of region r
RevisedGrid(r) ==
    [SeedGridCarbonIntensities[r] EXCEPT !.gco2e_per_kwh = Int2Rat(300),
                                         !.source = "Revised grid factors 2024"]

Running == "calculate_full_footprint: lookups done"

\* rows loaded by the session of the call in progress
LoadedGridIds == IF last.op = Running THEN {last.grid.id} ELSE {}

\* UPDATE of a grid row in place
grid_update ==
    /\ \E r \in GridWriteRegions \cap DOMAIN grid_carbon_intensities :
        /\ grid_carbon_intensities[r].gco2e_per_kwh # RevisedGrid(r).gco2e_per_kwh
        /\ grid_carbon_intensities' =
                [grid_carbon_intensities EXCEPT
                    ![r] = [RevisedGrid(r) EXCEPT !.id = grid_carbon_intensities[r].id]]
    /\ UNCHANGED <<ai_models, gpu_profiles, organizations, calculation_logs, last>>

\* DELETE of a grid row
grid_delete ==
    /\ \E r \in GridWriteRegions \cap DOMAIN grid_carbon_intensities :
        grid_carbon_intensities' =
            [q \in DOMAIN grid_carbon_intensities \ {r} |-> grid_carbon_intensities[q]]
    /\ UNCHANGED <<ai_models, gpu_profiles, organizations, calculation_logs, last>>

\* INSERT of a row for a region that has none: the row gets a new uuid
grid_insert ==
    /\ \E r \in GridWriteRegions \ DOMAIN grid_carbon_intensities :
       \E row \in {SeedGridCarbonIntensities[r], RevisedGrid(r)} :
        /\ FreshGridId \o r \notin LoadedGridIds
        /\ grid_carbon_intensities' =
                [q \in DOMAIN grid_carbon_intensities \cup {r} |->
                    IF q = r THEN [row EXCEPT !.id = FreshGridId \o r]
                    ELSE grid_carbon_intensities[q]]
    /\ UNCHANGED <<ai_models, gpu_profiles, organizations, calculation_logs, last>>

SessionFootprintInputs ==
    [model_id : {"gpt35", "no-such-model"},
     region_id : GridWriteRegions \cup {"eu-north-1"},
     total_tokens : {1000000}, request_count : {1000}, avg_tokens_per_request : {None},
     gpu_override : {None}, pue : {None}, wue : {None}]

\* lines 166-169: the model, GPU and grid queries of the call
FootprintLookups ==
    /\ last = NoCall
    /\ \E input_data \in SessionFootprintInputs :
        LET model == get_model_profile(Db, input_data.model_id)
            gpu == get_gpu_profile(Db, StrOr(input_data.gpu_override,
                                             model.value.default_gpu))
            grid == get_grid_intensity(Db, input_data.region_id)
        IN  last' = IF model.raised
                    THEN [op |-> "calculate_full_footprint", input |-> input_data,
                          outcome |-> model]
                    ELSE IF gpu.raised
                    THEN [op |-> "calculate_full_footprint", input |-> input_data,
                          outcome |-> gpu]
                    ELSE IF grid.raised
                    THEN [op |-> "calculate_full_footprint", input |-> input_data,
                          outcome |-> grid]
                    ELSE [op |-> Running, input |-> input_data, model |-> model.value,
                          gpu |-> gpu.value, grid |-> grid.value,
                          snapshot |-> grid_carbon_intensities]
    /\ UNCHANGED Tables

\* the grid table as a query of the session returns it: the rows of the
\* visible table, a row the session already loaded as the object it kept
SessionView(visible, loaded) ==
    [r \in DOMAIN visible |-> IF visible[r].id = loaded.id THEN loaded ELSE visible[r]]

\* lines 171-227: the rest of the call.  The query of calculate_co2e sees the
\* table as it was at the session's first query (repeatable read) or as it is
\* now (read committed).
FootprintCompute ==
    /\ last.op = Running
    /\ \E visible \in {last.snapshot, grid_carbon_intensities} :
        last' = [op |-> "calculate_full_footprint", input |-> last.input,
                 outcome |->
                    FootprintOf([Db EXCEPT !.grid_carbon_intensities =
                                               SessionView(visible, last.grid)],
                                last.input, last.model, last.gpu, last.grid)]
    /\ UNCHANGED Tables

\* the caller takes the outcome of the call
TakeFootprintOutcome ==
    /\ last.op = "calculate_full_footprint"
    /\ last' = NoCall
    /\ UNCHANGED Tables

NextSession ==
    \/ FootprintLookups
    \/ FootprintCompute
    \/ TakeFootprintOutcome
    \/ grid_update
    \/ grid_delete
    \/ grid_insert

SpecSession == Init /\ [][NextSession]_vars

-----------------------------------------------------------------------------
(* Properties of the lookups.                                              *)

\* model_id matches no active row of ai_models, by id or by slug
NoActiveMatch(model_id) ==
    \A i \in DOMAIN ai_models :
        ai_models[i].is_active => (ai_models[i].id # model_id /\ ai_models[i].slug # model_id)

ModelNotFound(outcome, model_id) ==
    /\ outcome.raised
    /\ outcome.type = "ValueError"
    /\ outcome.msg = <<"Model not found: ", model_id>>

C2_CompareAbortsWithNotFound ==
    (/\ last.op = "compare_models"
     /\ \/ \E k \in DOMAIN last.model_ids : NoActiveMatch(last.model_ids[k])
        \/ last.region_id \notin DOMAIN grid_carbon_intensities)
        => /\ last.outcome.raised
           /\ last.outcome.type = "ValueError"
           /\ last.outcome.msg[1] \in {"Model not found: ", "Region not found: "}

\* C3: no read path of the engine or of the API resolves or reports a model
\* row whose is_active is FALSE.
C3_InactiveNeverResolved ==
    /\ last.op \in {"list_models", "get_model", "get_analytics", "get_dashboard_metrics"}
            => \A m \in last.resolved : m.is_active
    /\ (last.op = "calculate_full_footprint" /\ ~last.outcome.raised)
            => last.outcome.value.model.is_active
    /\ (last.op = "compare_models" /\ ~last.outcome.raised)
            => \A k \in DOMAIN last.model_ids : ~NoActiveMatch(last.model_ids[k])

-----------------------------------------------------------------------------
(* Properties of the footprint.                                            *)

Returned(op) == last.op = op /\ ~last.outcome.raised

\* C4: calculate_full_footprint given a negative total_tokens raises instead
\* of returning a FootprintResult, so that no result has a negative duration,
\* energy or CO2e.
C4_NegativeTokensRejected ==
    last.op = "calculate_full_footprint"
        => /\ last.input.total_tokens < 0 => last.outcome.raised
           /\ ~last.outcome.raised
                => /\ RGe(last.outcome.value.duration_hours, Zero)
                   /\ RGe(last.outcome.value.energy_kwh, Zero)
                   /\ RGe(last.outcome.value.co2e_grams, Zero)

\* C5: a supplied PUE or WUE override inside the documented range (WUE 0.0
\* included) is the value the energy and the water of the result are computed
\* with; the defaults are used only when no override is supplied.
C5_SuppliedOverridesUsed ==
    Returned("calculate_full_footprint")
        => LET input_data == last.input
               result == last.outcome.value
               pue == IF input_data.pue = None THEN DEFAULT_PUE ELSE input_data.pue[1]
               wue == IF input_data.wue = None THEN DEFAULT_WUE_LITERS_PER_KWH
                      ELSE input_data.wue[1]
           IN  /\ result.energy_kwh
                    = RMul(RMul(Rat(input_data.total_tokens, 1000000),
                                result.model.energy_per_million_tokens_kwh), pue)
               /\ result.water_liters
                    = RAdd(RMul(result.energy_kwh, wue),
                           RMul(result.gpu.water_cooling_liters_per_hour,
                                result.duration_hours))

\* C6: with total_tokens = 0 calculate_full_footprint returns energy, CO2e,
\* water, hardware amortization and duration equal to 0 and the three
\* per-request metrics equal to 0, for every request_count (0 included).
C6_ZeroTokensZeroFootprint ==
    (last.op = "calculate_full_footprint" /\ last.input.total_tokens = 0)
        => /\ ~last.outcome.raised
           /\ \A f \in {"energy_kwh", "co2e_grams", "water_liters",
                        "hardware_amortized_grams", "duration_hours",
                        "energy_per_request", "co2e_per_request", "water_per_request"} :
                 last.outcome.value[f] = Zero

C6_Witness ==
    /\ Returned("calculate_full_footprint")
    /\ last.input.total_tokens = 0
    /\ last.input.request_count = 0
    /\ last.outcome.value.water_per_request = Zero

\* C7: for a fixed model and PUE and every positive total_tokens x,
\* calculate_energy(2x) = 2 * calculate_energy(x).
C7_EnergyLinearInTokens ==
    (last.op = "calculate_energy" /\ last.total_tokens > 0)
        => calculate_energy(2 * last.total_tokens, last.model,
                            IF last.pue = None THEN DEFAULT_PUE ELSE last.pue[1])
             = RMul(Int2Rat(2), last.outcome)

C7_Witness ==
    /\ last.op = "calculate_energy"
    /\ last.total_tokens = 500000
    /\ last.pue = Some(Rat(3, 2))
    /\ RGt(last.outcome, Zero)

\* C8: for a model of 0.45 kWh per million tokens, 120 tokens/s per GPU and 2
\* inference GPUs, a grid of 78 gCO2e/kWh, total_tokens = 1,000,000 and no PUE
\* override, the result has energy_kwh = 0.54, co2e_grams = 42.12 and
\* duration_hours = 1,000,000 / (120 * 2) / 3600.
C8_WorkedExample ==
    (/\ Returned("calculate_full_footprint")
     /\ last.input.total_tokens = 1000000
     /\ last.input.pue = None
     /\ last.outcome.value.model.energy_per_million_tokens_kwh = Rat(45, 100)
     /\ last.outcome.value.model.tokens_per_second_per_gpu = 120
     /\ last.outcome.value.model.gpu_count_inference = 2
     /\ last.outcome.value.grid.gco2e_per_kwh = Int2Rat(78))
        => /\ last.outcome.value.energy_kwh = Rat(54, 100)
           /\ last.outcome.value.co2e_grams = Rat(4212, 100)
           /\ last.outcome.value.duration_hours = Rat(1000000, 120 * 2 * 3600)

C8_Witness ==
    /\ Returned("calculate_full_footprint")
    /\ last.input.model_id = "gpt35"
    /\ last.input.region_id = "us-west-2"
    /\ last.input.total_tokens = 1000000
    /\ last.input.pue = None
    /\ last.outcome.value.co2e_grams = Rat(4212, 100)

-----------------------------------------------------------------------------
(* Properties of the normalizations.                                       *)

InPercentRange(score) == RGe(score, Zero) /\ RLe(score, Int2Rat(100))

\* C9: for 0 < best < worst, log_normalize returns 100 for every value <= best,
\* 0 for every value >= worst, and in between a score inside [0, 100] that does
\* not increase as the value increases.
C9_LogNormalize ==
    last.op = "log_normalize"
        => /\ RLe(last.value, last.best) => last.outcome = Int2Rat(100)
           /\ RGe(last.value, last.worst) => last.outcome = Int2Rat(0)
           /\ InPercentRange(last.outcome)
           /\ \A higher \in LogValues :
                 RGe(higher, last.value)
                    => RLe(log_normalize(higher, last.best, last.worst), last.outcome)

\* a value strictly between best and worst got a score strictly between 0 and 100
C9_Witness ==
    /\ last.op = "log_normalize"
    /\ RGt(last.value, last.best)
    /\ RLt(last.value, last.worst)
    /\ RGt(last.outcome, Zero)
    /\ RLt(last.outcome, Int2Rat(100))

\* C10: for worst < best, linear_normalize returns
\* 100 * (value - worst) / (best - worst) for worst <= value <= best, 0 below
\* worst and 100 above best; with worst 0 and best 100 the score of a
\* percentage in 0..100 is the percentage itself.
C10_LinearNormalize ==
    last.op = "linear_normalize"
        => /\ (RLe(last.worst, last.value) /\ RLe(last.value, last.best))
                => last.outcome
                     = RDiv(RMul(Int2Rat(100), RSub(last.value, last.worst)),
                            RSub(last.best, last.worst))
           /\ RLt(last.value, last.worst) => last.outcome = Int2Rat(0)
           /\ RGt(last.value, last.best) => last.outcome = Int2Rat(100)
           /\ (/\ last.worst = Int2Rat(0)
               /\ last.best = Int2Rat(100)
               /\ InPercentRange(last.value))
                => last.outcome = last.value

\* a renewable percentage strictly inside 0..100 was normalized
C10_Witness ==
    /\ last.op = "linear_normalize"
    /\ last.worst = Int2Rat(0)
    /\ last.best = Int2Rat(100)
    /\ last.value = Int2Rat(68)
    /\ last.outcome = Int2Rat(68)

-----------------------------------------------------------------------------
(* Properties of the EcoScore.                                             *)

NonNegativeWeights(weights) ==
    \A k \in DOMAIN weights : RGe(weights[k], Zero)

\* the returned overall does not decrease when one sub-score of last.scores
\* increases, the other four and the weights unchanged
OverallNonDecreasing ==
    \A k \in 1..5, higher \in SubScores :
        RGe(higher, last.scores[k])
            => RGe(ReturnedOverall(last.weights, [last.scores EXCEPT ![k] = higher]),
                   last.outcome)

\* C11 as stated: for any weights calculate_eco_score accepts, the overall does
\* not decrease when one sub-score increases and the other four sub-scores and
\* the weights are unchanged.
C11_Monotone_AnyWeights ==
    last.op = "overall" => OverallNonDecreasing

\* C11: for weights that are all non-negative, the overall does not decrease
\* when one sub-score increases and the other four sub-scores and the weights
\* are unchanged.
C11_Monotone_NonNegativeWeights ==
    (last.op = "overall" /\ NonNegativeWeights(last.weights)) => OverallNonDecreasing

\* the default weights, with a carbon sub-score that can still increase
C11_Witness ==
    /\ last.op = "overall"
    /\ last.weights = DEFAULT_ECOSCORE_WEIGHTS
    /\ last.scores[2] = Zero
    /\ last.scores[1] = Int2Rat(100)
    /\ RGt(ReturnedOverall(last.weights, [last.scores EXCEPT ![2] = Int2Rat(100)]),
           last.outcome)

\* the grades with their lower bounds, highest first
GradeBounds ==
    << <<90, "A+">>, <<80, "A">>, <<70, "B+">>, <<60, "B">>, <<50, "C+">>, <<40, "C">>,
       <<30, "D">> >>

\* C12: get_grade gives a score the highest grade whose inclusive lower bound it
\* reaches (>= 90 A+, >= 80 A, >= 70 B+, >= 60 B, >= 50 C+, >= 40 C, >= 30 D)
\* and F when it reaches none; 90.0 gives A+ and 89.9 gives A.
C12_GradeTable ==
    last.op = "get_grade"
        => LET reached == {i \in DOMAIN GradeBounds :
                              RGe(last.score, Int2Rat(GradeBounds[i][1]))}
           IN  /\ reached = {} => last.outcome = "F"
               /\ reached # {}
                    => last.outcome
                         = GradeBounds[CHOOSE i \in reached : \A j \in reached : i <= j][2]
               /\ last.score = Int2Rat(90) => last.outcome = "A+"
               /\ last.score = Rat(899, 10) => last.outcome = "A"

\* a score on a bound was graded
C12_Witness ==
    /\ last.op = "get_grade"
    /\ last.score = Int2Rat(90)
    /\ last.outcome = "A+"

\* the active row of ai_models that model_id matches by id or by slug
ActiveMatch(model_id) ==
    ai_models[CHOOSE i \in DOMAIN ai_models :
                 /\ ai_models[i].is_active
                 /\ (ai_models[i].id = model_id \/ ai_models[i].slug = model_id)]

ConfidenceByFamily(eco_score, model_id) ==
    /\ eco_score.confidence \in {"low", "medium"}
    /\ eco_score.confidence = "low" <=> ActiveMatch(model_id).family = "custom"

\* C13: the confidence of every EcoScoreResult is "low" exactly when the
\* resolved model's family is "custom" and "medium" otherwise; it is never
\* "high".
C13_Confidence ==
    /\ Returned("calculate_eco_score")
            => ConfidenceByFamily(last.outcome.value, last.model_id)
    /\ Returned("compare_models")
            => \A k \in DOMAIN last.model_ids :
                  ConfidenceByFamily(last.outcome.value.models[k].ecoScore,
                                     last.model_ids[k])

\* the EcoScore of a custom model and that of a predefined one were returned
\* in one comparison
C13_Witness ==
    /\ Returned("compare_models")
    /\ Len(last.model_ids) = 2
    /\ last.outcome.value.models[1].ecoScore.confidence = "low"
    /\ last.outcome.value.models[2].ecoScore.confidence = "medium"

BreakdownScoresInRange(eco_score) ==
    \A k \in DOMAIN eco_score.breakdown : InPercentRange(eco_score.breakdown[k].score)

SumOfWeights(weights) ==
    RAdd(RAdd(RAdd(RAdd(weights.energyEfficiency, weights.carbonIntensity),
                   weights.waterUsage),
              weights.hardwareLifecycle),
         weights.renewableAlignment)

\* C15 as stated: every EcoScoreResult has its overall and its five breakdown
\* scores inside [0, 100], for every weights argument the function accepts.
C15_ScoresInRange_AnyWeights ==
    Returned("calculate_eco_score")
        => /\ InPercentRange(last.outcome.value.overall)
           /\ BreakdownScoresInRange(last.outcome.value)

\* C15: every EcoScoreResult has its five breakdown scores inside [0, 100], and
\* its overall inside [0, 100] when the weights are non-negative and sum to at
\* most 1 (the default weights, or an override that keeps to it).
C15_ScoresInRange_ConvexWeights ==
    Returned("calculate_eco_score")
        => /\ BreakdownScoresInRange(last.outcome.value)
           /\ (/\ NonNegativeWeights(WeightsOf(last.weights))
               /\ RLe(SumOfWeights(WeightsOf(last.weights)), Int2Rat(1)))
                => InPercentRange(last.outcome.value.overall)

\* an override of all the weight on energy, with a carbon value below the best
\* benchmark (sub-score 100)
C15_Witness ==
    /\ Returned("calculate_eco_score")
    /\ last.weights # None
    /\ last.weights[1].energyEfficiency = Int2Rat(1)
    /\ SumOfWeights(last.weights[1]) = Int2Rat(1)
    /\ last.outcome.value.breakdown.carbonIntensity.score = Int2Rat(100)
    /\ RLt(last.outcome.value.overall, Int2Rat(100))

\* C23: in every EcoScoreResult the grade is the one get_grade gives the overall
\* the same result reports (the overall rounded to one decimal).
C23_GradeOfReportedOverall ==
    Returned("calculate_eco_score")
        => last.outcome.value.grade = get_grade(last.outcome.value.overall)

\* C29: calculate_full_footprint with total_tokens = 1,000,000, no GPU
\* override and no PUE or WUE override returns energy_kwh, co2e_grams,
\* water_liters and hardware_amortized_grams equal to the unrounded raw values
\* calculate_eco_score normalizes for the same model and region, which are the
\* raw values its result reports once rounded.
C29_FootprintIsRawAtOneMillion ==
    (/\ Returned("calculate_full_footprint")
     /\ last.input.total_tokens = 1000000
     /\ last.input.gpu_override = None
     /\ last.input.pue = None
     /\ last.input.wue = None)
        => LET result == last.outcome.value
               eco_score == calculate_eco_score(Db, last.input.model_id,
                                                last.input.region_id, None, None)
           IN  /\ result.energy_kwh = energy_raw(result.model)
               /\ result.co2e_grams = co2_raw(result.model, result.grid)
               /\ result.water_liters = water_raw(result.model, result.gpu)
               /\ result.hardware_amortized_grams = hw_raw(result.model, result.gpu)
               /\ ~eco_score.raised
               /\ eco_score.value.breakdown.energyEfficiency.raw
                    = round(result.energy_kwh, 3)
               /\ eco_score.value.breakdown.carbonIntensity.raw
                    = round(result.co2e_grams, 2)
               /\ eco_score.value.breakdown.waterUsage.raw = round(result.water_liters, 3)
               /\ eco_score.value.breakdown.hardwareLifecycle.raw
                    = round(result.hardware_amortized_grams, 2)

\* the footprint of one million tokens of a model on its default GPU
C29_Witness ==
    /\ Returned("calculate_full_footprint")
    /\ last.input.total_tokens = 1000000
    /\ last.input.gpu_override = None
    /\ last.input.pue = None
    /\ last.input.wue = None
    /\ last.input.model_id = "uuid-2"
    /\ last.input.region_id = "af-south-1"
    /\ last.outcome.value.co2e_grams = co2_raw(last.outcome.value.model, last.outcome.value.grid)
    /\ RGt(last.outcome.value.hardware_amortized_grams, Zero)

-----------------------------------------------------------------------------
(* Properties of the comparison.                                           *)

EcoScoresOf(comparison) ==
    [k \in DOMAIN comparison.models |-> comparison.models[k].ecoScore]

\* C14: for a fixed catalog, model list, region and weights, the ecoScore of
\* every compare_models entry (overall, grade, breakdown scores and raw values)
\* is the same for every requests-per-batch and every avg_tokens_per_request:
\* it is the one of the comparison at 1000 requests of 1000 tokens.
C14_EcoScoreIgnoresVolume ==
    Returned("compare_models")
        => EcoScoresOf(compare_models(Db, last.model_ids, last.region_id, 1000, 1000,
                                      last.weights).value)
             = EcoScoresOf(last.outcome.value)

\* two models were compared at a volume other than one million tokens
C14_Witness ==
    /\ Returned("compare_models")
    /\ Len(last.model_ids) = 2
    /\ last.requests_per_1k = 2000
    /\ last.avg_tokens_per_request = 1000
    /\ last.outcome.value.models[1].ecoScore.overall
            # last.outcome.value.models[2].ecoScore.overall

\* quality_score / (co2e_grams / 1000) of an entry
QualityPerKg(entry) ==
    RDiv(Int2Rat(entry.qualityScore),
         RDiv(entry.footprint.co2eGramsPer1kRequests, Int2Rat(1000)))

C17_BestPicks ==
    Returned("compare_models")
        => LET models == last.outcome.value.models
               recommendation == last.outcome.value.recommendation
           IN  /\ \E k \in DOMAIN models :
                    /\ models[k].modelId = recommendation.bestOverall
                    /\ \A j \in DOMAIN models :
                          RGe(models[k].ecoScore.overall, models[j].ecoScore.overall)
               /\ \E k \in DOMAIN models :
                    /\ models[k].modelId = recommendation.bestEfficiency
                    /\ \A j \in DOMAIN models :
                          RLe(models[k].footprint.co2eGramsPer1kRequests,
                              models[j].footprint.co2eGramsPer1kRequests)
               /\ \E k \in DOMAIN models :
                    /\ models[k].modelId = recommendation.bestQualityPerCarbon
                    /\ \A j \in DOMAIN models :
                          RGe(models[k].costEfficiency, models[j].costEfficiency)

\* the entry listed second is strictly better than the first in all three
\* rankings and is the pick of each
C17_Witness ==
    /\ Returned("compare_models")
    /\ Len(last.model_ids) = 2
    /\ LET models == last.outcome.value.models
           recommendation == last.outcome.value.recommendation
       IN  /\ RGt(models[2].ecoScore.overall, models[1].ecoScore.overall)
           /\ RLt(models[2].footprint.co2eGramsPer1kRequests,
                  models[1].footprint.co2eGramsPer1kRequests)
           /\ RGt(models[2].costEfficiency, models[1].costEfficiency)
           /\ recommendation.bestOverall = last.model_ids[2]
           /\ recommendation.bestEfficiency = last.model_ids[2]
           /\ recommendation.bestQualityPerCarbon = last.model_ids[2]

\* C18: whenever bestOverall, bestEfficiency and bestQualityPerCarbon are the
\* same model, the tradeoffs list of the result is empty.
C18_NoTradeoffsWhenPicksAgree ==
    (/\ Returned("compare_models")
     /\ last.outcome.value.recommendation.bestOverall
            = last.outcome.value.recommendation.bestEfficiency
     /\ last.outcome.value.recommendation.bestOverall
            = last.outcome.value.recommendation.bestQualityPerCarbon)
        => last.outcome.value.recommendation.tradeoffs = <<>>

\* C19: compare_models called with a list of a single model id returns an
\* empty tradeoffs list, for every model, region and request volume.
C19_SingleModelNoTradeoffs ==
    (Returned("compare_models") /\ Len(last.model_ids) = 1)
        => last.outcome.value.recommendation.tradeoffs = <<>>

\* a single model with non-zero emissions was compared
C19_Witness ==
    /\ Returned("compare_models")
    /\ Len(last.model_ids) = 1
    /\ RGt(last.outcome.value.models[1].footprint.co2eGramsPer1kRequests, Zero)
    /\ last.outcome.value.recommendation.bestOverall = last.model_ids[1]
    /\ last.outcome.value.recommendation.tradeoffs = <<>>

\* C20: the models list of the result has exactly one entry per element of
\* model_ids, in input order, and two positions holding the same id yield
\* entries with identical ecoScore, footprint, qualityScore and costEfficiency.
C20_NoDeduplication ==
    Returned("compare_models")
        => LET models == last.outcome.value.models
           IN  /\ Len(models) = Len(last.model_ids)
               /\ \A k \in DOMAIN last.model_ids : models[k].modelId = last.model_ids[k]
               /\ \A j, k \in DOMAIN last.model_ids :
                     last.model_ids[j] = last.model_ids[k]
                        => /\ models[j].ecoScore = models[k].ecoScore
                           /\ models[j].footprint = models[k].footprint
                           /\ models[j].qualityScore = models[k].qualityScore
                           /\ models[j].costEfficiency = models[k].costEfficiency

\* the same id was listed twice
C20_Witness ==
    /\ Returned("compare_models")
    /\ Len(last.model_ids) = 2
    /\ last.model_ids[1] = last.model_ids[2]
    /\ Len(last.outcome.value.models) = 2
    /\ last.outcome.value.models[1] = last.outcome.value.models[2]

\* the earliest position of models whose key is the best one: the highest
\* when descending, the lowest otherwise
EarliestBest(models, key(_), descending) ==
    CHOOSE k \in DOMAIN models :
        /\ \A j \in DOMAIN models :
              IF descending THEN RGe(key(models[k]), key(models[j]))
                            ELSE RLe(key(models[k]), key(models[j]))
        /\ \A j \in 1..(k - 1) : key(models[j]) # key(models[k])

OverallKey(entry) == entry.ecoScore.overall

Co2eKey(entry) == entry.footprint.co2eGramsPer1kRequests

CostEfficiencyKey(entry) == entry.costEfficiency

\* C30: when several entries share the best key of a ranking (the reported
\* EcoScore overall, co2e_grams, or the reported costEfficiency), the best_*
\* pick is the id given at the earliest of their positions in model_ids, in the
\* two descending rankings as in the ascending one.
C30_TiesByInputOrder ==
    Returned("compare_models")
        => LET models == last.outcome.value.models
               recommendation == last.outcome.value.recommendation
           IN  /\ recommendation.bestOverall
                    = last.model_ids[EarliestBest(models, OverallKey, TRUE)]
               /\ recommendation.bestEfficiency
                    = last.model_ids[EarliestBest(models, Co2eKey, FALSE)]
               /\ recommendation.bestQualityPerCarbon
                    = last.model_ids[EarliestBest(models, CostEfficiencyKey, TRUE)]

\* one model was listed by its slug and then by its id: the two entries tie in
\* the three rankings and the slug is the pick of each
C30_Witness ==
    /\ Returned("compare_models")
    /\ last.model_ids = <<"gpt35", "uuid-1">>
    /\ last.requests_per_1k = 1000
    /\ OverallKey(last.outcome.value.models[1]) = OverallKey(last.outcome.value.models[2])
    /\ RGt(Co2eKey(last.outcome.value.models[1]), Zero)
    /\ last.outcome.value.recommendation.bestOverall = "gpt35"
    /\ last.outcome.value.recommendation.bestEfficiency = "gpt35"
    /\ last.outcome.value.recommendation.bestQualityPerCarbon = "gpt35"

-----------------------------------------------------------------------------
(* Properties of the engine as a whole.                                    *)

EngineOps == {"calculate_full_footprint", "calculate_eco_score", "compare_models"}

\* the outcome last records is the one the same call gives on the tables as
\* they are now
Replayed ==
    /\ last.op = "calculate_full_footprint"
            => last.outcome = calculate_full_footprint(Db, last.input)
    /\ last.op = "calculate_eco_score"
            => last.outcome = calculate_eco_score(Db, last.model_id, last.region_id,
                                                  last.weights, last.gpu_override)
    /\ last.op = "compare_models"
            => last.outcome = compare_models(Db, last.model_ids, last.region_id,
                                             last.requests_per_1k,
                                             last.avg_tokens_per_request, last.weights)

C22_FiveAssumptions ==
    Returned("calculate_full_footprint")
        => LET result == last.outcome.value
               assumptions == result.assumptions
           IN  /\ Len(assumptions) = 5
               /\ [k \in 1..5 |-> assumptions[k][1]]
                    = <<"PUE factor", "Estimated duration", "Grid intensity", "WUE",
                        "GPU embodied carbon">>
               /\ result.energy_kwh
                    = RMul(RMul(Rat(last.input.total_tokens, 1000000),
                                result.model.energy_per_million_tokens_kwh),
                           assumptions[1][2])
               /\ Tail(assumptions[2])
                    = <<round(result.duration_hours, 3),
                        result.model.tokens_per_second_per_gpu,
                        result.model.gpu_count_inference>>
               /\ Tail(assumptions[3]) = <<result.grid.gco2e_per_kwh, result.grid.source>>
               /\ result.water_liters
                    = RAdd(RMul(result.energy_kwh, assumptions[4][2]),
                           RMul(result.gpu.water_cooling_liters_per_hour,
                                result.duration_hours))
               /\ Tail(assumptions[5])
                    = <<result.gpu.embodied_carbon_kg_co2e,
                        result.gpu.expected_lifespan_hours>>

\* a result computed with a PUE override and with the default WUE that a
\* WUE of 0.0 falls back to
C22_Witness ==
    /\ Returned("calculate_full_footprint")
    /\ last.input.total_tokens = 1000000
    /\ last.input.pue = Some(Rat(3, 2))
    /\ last.input.wue = Some(Zero)
    /\ last.outcome.value.assumptions[1] = <<"PUE factor", Rat(3, 2)>>
    /\ last.outcome.value.assumptions[4] = <<"WUE", DEFAULT_WUE_LITERS_PER_KWH>>

\* the entry compare_models takes as the one to switch from: the lowest
\* EcoScore overall, the last listed among equals
LowestScoreEntry(models) ==
    models[CHOOSE k \in DOMAIN models :
              /\ \A j \in DOMAIN models :
                    RLe(models[k].ecoScore.overall, models[j].ecoScore.overall)
              /\ \A j \in DOMAIN models :
                    models[j].ecoScore.overall = models[k].ecoScore.overall => j <= k]

\* the lowest co2e_grams of the entries
LowestCo2e(models) ==
    (CHOOSE x \in {models[k].footprint.co2eGramsPer1kRequests : k \in DOMAIN models} :
        \A j \in DOMAIN models : RLe(x, models[j].footprint.co2eGramsPer1kRequests))

\* round((1 - lowest co2e / co2e of the lowest-score entry) * 100), and 0 when
\* the co2e of the lowest-score entry is 0
ExpectedImprovementPct(models) ==
    LET reference == LowestScoreEntry(models).footprint.co2eGramsPer1kRequests
    IN  IF reference = Zero THEN 0
        ELSE RoundInt(RMul(RSub(Int2Rat(1), RDiv(LowestCo2e(models), reference)),
                           Int2Rat(100)))

SwitchingStatements(tradeoffs) ==
    {k \in DOMAIN tradeoffs : tradeoffs[k][1] = "Switching from to could reduce emissions"}

\* C24: for every non-empty model list with non-negative CO2e values the
\* improvement percentage is between 0 and 100, it is 0 when the co2e of the
\* lowest-EcoScore entry is 0, and tradeoffs holds the 'Switching from ...'
\* statement, naming that percentage, exactly when it is greater than 10.
C24_ImprovementPct ==
    (/\ Returned("compare_models")
     /\ \A k \in DOMAIN last.outcome.value.models :
           RGe(last.outcome.value.models[k].footprint.co2eGramsPer1kRequests, Zero))
        => LET models == last.outcome.value.models
               tradeoffs == last.outcome.value.recommendation.tradeoffs
           IN  /\ ExpectedImprovementPct(models) \in 0..100
               /\ LowestScoreEntry(models).footprint.co2eGramsPer1kRequests = Zero
                    => SwitchingStatements(tradeoffs) = {}
               /\ SwitchingStatements(tradeoffs) # {} <=> ExpectedImprovementPct(models) > 10
               /\ \A k \in SwitchingStatements(tradeoffs) :
                     /\ k = Len(tradeoffs)
                     /\ tradeoffs[k][4] = ExpectedImprovementPct(models)

\* two models whose emissions differ by more than a tenth were compared, the
\* one with the lower EcoScore listed first
C24_Witness ==
    /\ Returned("compare_models")
    /\ Len(last.model_ids) = 2
    /\ last.weights = None
    /\ last.requests_per_1k = 2000
    /\ LowestScoreEntry(last.outcome.value.models).modelId = last.model_ids[1]
    /\ ExpectedImprovementPct(last.outcome.value.models) = 89
    /\ SwitchingStatements(last.outcome.value.recommendation.tradeoffs) # {}

\* C26: whenever the statement 'Switching from X to Y ...' is emitted, X is the
\* lowest-EcoScore entry, Y is the best-efficiency entry, the quality score
\* before the arrow is that of X and the one after the arrow is that of Y.
C26_SwitchingNamesTargetQuality ==
    Returned("compare_models")
        => LET models == last.outcome.value.models
               recommendation == last.outcome.value.recommendation
               X == LowestScoreEntry(models)
           IN  \A k \in SwitchingStatements(recommendation.tradeoffs) :
                  \E y \in DOMAIN models :
                     /\ models[y].modelId = recommendation.bestEfficiency
                     /\ recommendation.tradeoffs[k][2] = X.displayName
                     /\ recommendation.tradeoffs[k][3] = models[y].displayName
                     /\ recommendation.tradeoffs[k][5] = X.qualityScore
                     /\ recommendation.tradeoffs[k][6] = models[y].qualityScore

\* C27: compare_models called with an empty model-id list never returns: it
\* raises, the exception is the IndexError of indexing the empty ranking and
\* not the not-found ValueError (also when the region id is unknown), and the
\* /api/v1/compare endpoint answers 500 'Comparison failed', not 400.
C27_EmptyListFails ==
    /\ (last.op = "compare_models" /\ last.model_ids = <<>>)
            => /\ last.outcome.raised
               /\ last.outcome.type = "IndexError"
               /\ last.outcome.type # "ValueError"
    /\ (last.op = "api_compare_models" /\ last.request.model_ids = <<>>)
            => /\ last.response.status = 500
               /\ last.response.detail[1] = "Comparison failed"

\* the endpoint was called with no model id and a region no row has
C27_Witness ==
    /\ last.op = "api_compare_models"
    /\ last.request.model_ids = <<>>
    /\ last.request.region_id \notin DOMAIN grid_carbon_intensities
    /\ last.response.status = 500

\* C25: every FootprintResult has co2e_grams equal to its energy_kwh times the
\* gco2e_per_kwh of the grid profile it returns, which is the intensity and
\* the source its grid assumption names, also when other sessions write the
\* region's grid row between the lookups of the call.
C25_OneSnapshot ==
    Returned("calculate_full_footprint")
        => LET result == last.outcome.value
           IN  /\ result.co2e_grams = RMul(result.energy_kwh, result.grid.gco2e_per_kwh)
               /\ Tail(result.assumptions[3])
                    = <<result.grid.gco2e_per_kwh, result.grid.source>>

-----------------------------------------------------------------------------
(* Properties of the API handlers.                                         *)

\* the model, its GPU and the region of the request resolve
LookupsSucceed(request) ==
    /\ ~NoActiveMatch(request.model_id)
    /\ ActiveMatch(request.model_id).default_gpu \in DOMAIN gpu_profiles
    /\ request.region_id \in DOMAIN grid_carbon_intensities

\* calculate_footprint handled request: it added one row as the last of
\* calculation_logs exactly when persist is true, the lookups succeed and the
\* default organization exists, and no row otherwise
LogsOneRowPerPersistedRequest(request, logs_before, logs_after) ==
    IF request.persist /\ LookupsSucceed(request) /\ "default" \in organizations
    THEN /\ Len(logs_after) = Len(logs_before) + 1
         /\ SubSeq(logs_after, 1, Len(logs_before)) = logs_before
    ELSE logs_after = logs_before

====
